---- MODULE Spec2Model ----
(***************************************************************************)
(* Multi-tape Turing machine executor (tape.py, transitions.py, tm.py)     *)
(* and the k-tape -> 1-tape compiler (compress.py).                        *)
(*                                                                         *)
(* Representation.  A Python str is a sequence of one-character strings,   *)
(* so the symbol '0' is <<"0">>, the compressed symbol "*0-_" is           *)
(* <<"*","0","-","_">> and the empty str is <<>>.  Python indices are      *)
(* 0-based: chars[head] is chars[head + 1] here.  An execution state is a  *)
(* record; the members of EndStates are the records of stage "end".        *)
(***************************************************************************)
EXTENDS Integers, Sequences, FiniteSets, TLC

\* ------------------------------------------------------------------------
\* Bounds of the model
\* ------------------------------------------------------------------------
MaxLen == 2
MaxSrcTime == 8
MaxCmpTime == 200
MaxBody == 2
MaxCount == 2

\* ------------------------------------------------------------------------
\* transitions.py: EndStates, Directions, special symbols
\* ------------------------------------------------------------------------
ACCEPT == -1
REJECT == -2
HALT == -3
EndStates == {ACCEPT, REJECT, HALT}

Directions == {"L", "N", "R"}

START_CHAR == <<"S">>
BLANK_CHAR == <<"_">>
SPECIAL_CHARS == <<START_CHAR, BLANK_CHAR>>

\* ------------------------------------------------------------------------
\* Generic helpers on sequences
\* ------------------------------------------------------------------------
Range(s) == {s[i] : i \in DOMAIN s}

RECURSIVE Flatten(_)
Flatten(ss) == IF ss = <<>> THEN <<>> ELSE Head(ss) \o Flatten(Tail(ss))

Min(a, b) == IF a < b THEN a ELSE b

\* ------------------------------------------------------------------------
\* Execution states
\* ------------------------------------------------------------------------
NoSeq == <<>>

MkState(stage, q, save, acts, dirs, found, ch, placed) ==
    [stage |-> stage, q |-> q, save |-> save, acts |-> acts, dirs |-> dirs,
     found |-> found, ch |-> ch, placed |-> placed]

\* a state number of a table (source state, or reserved state of the compiler)
NumState(n) == MkState("num", n, NoSeq, NoSeq, NoSeq, NoSeq, NoSeq, FALSE)
\* a member of EndStates
EndState(e) == MkState("end", e, NoSeq, NoSeq, NoSeq, NoSeq, NoSeq, FALSE)
\* int | EndStates as stored in a source table
ToState(n) == IF n \in EndStates THEN EndState(n) ELSE NumState(n)

is_endstate(state) == state.stage = "end"

\* ------------------------------------------------------------------------
\* chars.py
\* ------------------------------------------------------------------------
str_to_chars(string) == [i \in 1..Len(string) |-> <<string[i]>>]

chars_to_str(chars) == Flatten(chars)

RECURSIVE JoinWith(_, _)
JoinWith(sep, chars) ==
    IF chars = <<>> THEN <<>>
    ELSE IF Len(chars) = 1 THEN chars[1]
    ELSE chars[1] \o sep \o JoinWith(sep, Tail(chars))

\* str.split("|"): always at least one field, possibly empty
RECURSIVE SplitBar(_, _)
SplitBar(string, cur) ==
    IF string = <<>> THEN <<cur>>
    ELSE IF Head(string) = "|" THEN <<cur>> \o SplitBar(Tail(string), <<>>)
    ELSE SplitBar(Tail(string), Append(cur, Head(string)))

str_to_multistr(string) ==
    IF "|" \in Range(string) THEN string
    ELSE JoinWith(<<"|">>, str_to_chars(string))

str_to_multichars(string) == SplitBar(string, <<>>)

multichars_to_str(chars) == JoinWith(<<"|">>, chars)

\* ------------------------------------------------------------------------
\* tape.py: a tape is [chars, head]; an operation that can raise returns
\* [tape, error], the tape being the object as the raise leaves it
\* ------------------------------------------------------------------------
NoError == "none"

TapeClasses == {"SingleCharTape", "MultiCharTape"}

SingleCharTape_write_input(machine_input) ==
    str_to_chars(<<"S">> \o machine_input \o <<"_">>)

MultiCharTape_write_input(machine_input) ==
    str_to_multichars(<<"S", "|">> \o str_to_multistr(machine_input) \o <<"|", "_">>)

\* Tape.__init__ without an input
Tape_blank == [chars |-> <<START_CHAR, BLANK_CHAR>>, head |-> 1]

\* Tape.__init__ with an input
Tape_init(tape_cls, machine_input) ==
    [chars |-> IF tape_cls = "SingleCharTape"
               THEN SingleCharTape_write_input(machine_input)
               ELSE MultiCharTape_write_input(machine_input),
     head |-> 1]

Tape_read(tape) == tape.chars[tape.head + 1]

\* a write that does not guard the start symbol
Tape_write_unguarded(tape, char) ==
    [tape |-> [tape EXCEPT !.chars[tape.head + 1] = char], error |-> NoError]

Tape_write(tape, char) ==
    IF Tape_read(tape) = START_CHAR /\ char # START_CHAR
    THEN [tape |-> tape, error |-> "RuntimeError"]
    ELSE [tape |-> [tape EXCEPT !.chars[tape.head + 1] = char], error |-> NoError]

\* a move that appends a blank on every move to the right
Tape_move_always_appends(tape, direction) ==
    LET head == IF direction = "L" THEN tape.head - 1
                ELSE IF direction = "R" THEN tape.head + 1
                ELSE tape.head
        chars == IF direction = "R" THEN Append(tape.chars, BLANK_CHAR)
                 ELSE tape.chars
    IN  [tape |-> [chars |-> chars, head |-> head],
         error |-> IF head < 0 THEN "IndexError" ELSE NoError]

Tape_move(tape, direction) ==
    LET head == IF direction = "L" THEN tape.head - 1
                ELSE IF direction = "R" THEN tape.head + 1
                ELSE tape.head
        chars == IF head >= Len(tape.chars) THEN Append(tape.chars, BLANK_CHAR)
                 ELSE tape.chars
    IN  [tape |-> [chars |-> chars, head |-> head],
         error |-> IF head < 0 THEN "IndexError" ELSE NoError]

\* str.replace(old, new) for a one-character old
ReplaceChar(string, old, new) ==
    Flatten([i \in 1..Len(string) |-> IF string[i] = old THEN new ELSE <<string[i]>>])

\* str.replace("|_", " ")
RECURSIVE ReplaceBarBlank(_)
ReplaceBarBlank(string) ==
    IF Len(string) < 2 THEN string
    ELSE IF string[1] = "|" /\ string[2] = "_"
         THEN <<" ">> \o ReplaceBarBlank(SubSeq(string, 3, Len(string)))
         ELSE <<string[1]>> \o ReplaceBarBlank(Tail(string))

\* str.rstrip()
RECURSIVE RStrip(_)
RStrip(string) ==
    IF string = <<>> THEN <<>>
    ELSE IF string[Len(string)] = " " THEN RStrip(SubSeq(string, 1, Len(string) - 1))
    ELSE string

\* an output that keeps the trailing blanks
SingleCharTape_output_unstripped(tape) ==
    LET result == chars_to_str(tape.chars)
    IN  SubSeq(result, 2, Len(result))

SingleCharTape_output(tape) ==
    LET result == ReplaceChar(RStrip(ReplaceChar(chars_to_str(tape.chars), "_", <<" ">>)),
                              " ", <<"_">>)
    IN  SubSeq(result, 2, Len(result))

MultiCharTape_output(tape) ==
    LET result == ReplaceChar(RStrip(ReplaceBarBlank(multichars_to_str(tape.chars))),
                              " ", <<"|", "_">>)
    IN  SubSeq(result, 3, Len(result))

Tape_output(tape_cls, tape) ==
    IF tape_cls = "SingleCharTape" THEN SingleCharTape_output(tape)
    ELSE MultiCharTape_output(tape)

\* ------------------------------------------------------------------------
\* tm.py: TuringMachine.  A machine object is [tapes, state, time, error];
\* error names the exception that ended the run, if one did.
\* ------------------------------------------------------------------------
TuringMachine_read(tapes) == [i \in 1..Len(tapes) |-> Tape_read(tapes[i])]

\* for tape, char in zip(self.tapes, chars): tape.write(char)
RECURSIVE TuringMachine_write(_, _, _)
TuringMachine_write(tapes, chars, i) ==
    IF i > Min(Len(tapes), Len(chars)) THEN [tapes |-> tapes, error |-> NoError]
    ELSE LET r == Tape_write(tapes[i], chars[i])
         IN  IF r.error # NoError
             THEN [tapes |-> [tapes EXCEPT ![i] = r.tape], error |-> r.error]
             ELSE TuringMachine_write([tapes EXCEPT ![i] = r.tape], chars, i + 1)

\* for tape, direction in zip(self.tapes, directions): tape.move(direction)
RECURSIVE TuringMachine_move(_, _, _)
TuringMachine_move(tapes, directions, i) ==
    IF i > Min(Len(tapes), Len(directions)) THEN [tapes |-> tapes, error |-> NoError]
    ELSE LET r == Tape_move(tapes[i], directions[i])
         IN  IF r.error # NoError
             THEN [tapes |-> [tapes EXCEPT ![i] = r.tape], error |-> r.error]
             ELSE TuringMachine_move([tapes EXCEPT ![i] = r.tape], directions, i + 1)

\* a step that moves the heads before it writes
TuringMachine_apply_move_first(m, trans_out) ==
    LET written_chars == [i \in 1..Len(trans_out.acts) |-> trans_out.acts[i][1]]
        directions == IF trans_out.oneshot THEN <<>>
                      ELSE [i \in 1..Len(trans_out.acts) |-> trans_out.acts[i][2]]
        mv == TuringMachine_move(m.tapes, directions, 1)
        w == TuringMachine_write(mv.tapes, written_chars, 1)
    IN  IF mv.error # NoError
        THEN [m EXCEPT !.time = m.time + 1, !.tapes = mv.tapes, !.error = mv.error]
        ELSE IF w.error # NoError
        THEN [m EXCEPT !.time = m.time + 1, !.tapes = w.tapes, !.error = w.error]
        ELSE [m EXCEPT !.time = m.time + 1, !.tapes = w.tapes, !.state = trans_out.next]

\* The rest of step() once the table has answered trans_out =
\* [next, acts, oneshot].  oneshot: acts is the zip object of the default
\* answer, which the first comprehension exhausts, so that the second one
\* (the directions) is empty.
TuringMachine_apply(m, trans_out) ==
    LET written_chars == [i \in 1..Len(trans_out.acts) |-> trans_out.acts[i][1]]
        directions == IF trans_out.oneshot THEN <<>>
                      ELSE [i \in 1..Len(trans_out.acts) |-> trans_out.acts[i][2]]
        w == TuringMachine_write(m.tapes, written_chars, 1)
        mv == TuringMachine_move(w.tapes, directions, 1)
    IN  IF w.error # NoError
        THEN [m EXCEPT !.time = m.time + 1, !.tapes = w.tapes, !.error = w.error]
        ELSE IF mv.error # NoError
        THEN [m EXCEPT !.time = m.time + 1, !.tapes = mv.tapes, !.error = mv.error]
        ELSE [m EXCEPT !.time = m.time + 1, !.tapes = mv.tapes, !.state = trans_out.next]

\* a run() that does not reset the step count of the machine object
TuringMachine_run_keeps_time(m, n_tapes, tape_cls, machine_input) ==
    [m EXCEPT !.state = NumState(0),
              !.tapes = [i \in 1..n_tapes |-> IF i = 1 THEN Tape_init(tape_cls, machine_input)
                                               ELSE Tape_blank],
              !.error = NoError]

\* the set-up of run() on a machine object m that may have been run before:
\* self.state = 0, self.time = 0, self.tapes = fresh tapes, the input on tape 0
TuringMachine_run(m, n_tapes, tape_cls, machine_input) ==
    [m EXCEPT !.state = NumState(0),
              !.time = 0,
              !.tapes = [i \in 1..n_tapes |-> IF i = 1 THEN Tape_init(tape_cls, machine_input)
                                               ELSE Tape_blank],
              !.error = NoError]

\* run(): state 0, time 0, fresh tapes, the input on tape 0
TuringMachine_reset(n_tapes, tape_cls, input) ==
    [tapes |-> [i \in 1..n_tapes |-> IF i = 1 THEN Tape_init(tape_cls, input)
                                      ELSE Tape_blank],
     state |-> NumState(0),
     time |-> 0,
     error |-> NoError]

TuringMachine_output(tape_cls, m) ==
    Tape_output(tape_cls, m.tapes[Len(m.tapes)])

\* result(), once run() has returned: "" unless the run ended in Halt
TuringMachine_result(tape_cls, m) ==
    IF m.state # EndState(HALT) THEN <<>>
    ELSE TuringMachine_output(tape_cls, m)

\* ------------------------------------------------------------------------
\* transitions.py: TransitionFunction.  A source table is
\* [n_tapes, alphabet, transitions]; transitions maps to_key(state, chars)
\* to <<state_out, chars_and_dirs_out>>.
\* ------------------------------------------------------------------------
to_key(state, chars) == <<state, chars>>

\* a default answer that writes blanks instead of the symbols read
TransitionFunction_default_blank(n_tapes, chars) ==
    [next |-> EndState(REJECT),
     acts |-> [i \in 1..Min(Len(chars), n_tapes) |-> <<BLANK_CHAR, "N">>],
     oneshot |-> TRUE]

\* the answer for a key that is not stored: (REJECT, zip(chars, [N] * n_tapes))
TransitionFunction_default(n_tapes, chars) ==
    [next |-> EndState(REJECT),
     acts |-> [i \in 1..Min(Len(chars), n_tapes) |-> <<chars[i], "N">>],
     oneshot |-> TRUE]

\* a lookup whose key never matches a stored one
TransitionFunction_get_never_stored(fun, state, chars) ==
    TransitionFunction_default(fun.n_tapes, chars)

TransitionFunction_get(fun, state, chars) ==
    LET key == to_key(state.q, chars)
    IN  IF state.stage # "num" \/ key \notin DOMAIN fun.transitions
        THEN TransitionFunction_default(fun.n_tapes, chars)
        ELSE [next |-> ToState(fun.transitions[key][1]),
              acts |-> fun.transitions[key][2],
              oneshot |-> FALSE]

\* ------------------------------------------------------------------------
\* Source tables the model runs (alphabet ['0', '1'])
\* ------------------------------------------------------------------------
Zero == <<"0">>
One == <<"1">>

\* one encoded transition line of a 1-tape table
Line1(q, r, ns, w, d) == to_key(q, <<r>>) :> <<ns, << <<w, d>> >> >>

\* one encoded transition line of a 2-tape table
Line2(q, r1, r2, ns, w1, d1, w2, d2) ==
    to_key(q, <<r1, r2>>) :> <<ns, << <<w1, d1>>, <<w2, d2>> >> >>

Alphabet01 == <<Zero, One>>

\* unary counter: 0 -> 1, 1 -> 1, halt on blank
UnaryCounter ==
    [n_tapes |-> 1, alphabet |-> Alphabet01,
     transitions |-> Line1(0, Zero, 0, One, "R") @@ Line1(0, One, 0, One, "R")
                     @@ Line1(0, BLANK_CHAR, HALT, BLANK_CHAR, "N")]

\* copy machine: copies tape 0 to tape 1, rewinds tape 0, halts
CopyMachine ==
    [n_tapes |-> 2, alphabet |-> Alphabet01,
     transitions |->
         Line2(0, Zero, BLANK_CHAR, 0, Zero, "R", Zero, "R")
      @@ Line2(0, One, BLANK_CHAR, 0, One, "R", One, "R")
      @@ Line2(0, BLANK_CHAR, BLANK_CHAR, 1, BLANK_CHAR, "L", BLANK_CHAR, "N")
      @@ Line2(1, Zero, BLANK_CHAR, 1, Zero, "L", BLANK_CHAR, "N")
      @@ Line2(1, One, BLANK_CHAR, 1, One, "L", BLANK_CHAR, "N")
      @@ Line2(1, START_CHAR, BLANK_CHAR, HALT, START_CHAR, "N", BLANK_CHAR, "N")]

\* accepts the words that contain a 0: scans right to the first 0, walks
\* back to the sentinel; 1^n falls to the implicit reject
ContainsZero ==
    [n_tapes |-> 1, alphabet |-> Alphabet01,
     transitions |-> Line1(0, One, 0, One, "R") @@ Line1(0, Zero, 1, Zero, "L")
                     @@ Line1(1, One, 1, One, "L")
                     @@ Line1(1, START_CHAR, ACCEPT, START_CHAR, "R")]

\* a broken machine: on 0 it overwrites the sentinel of tape 1, on 1 it
\* moves tape 1 left of the sentinel
SentinelViolator ==
    [n_tapes |-> 2, alphabet |-> Alphabet01,
     transitions |->
         Line2(0, Zero, BLANK_CHAR, 1, One, "N", BLANK_CHAR, "L")
      @@ Line2(1, One, START_CHAR, 1, Zero, "N", Zero, "N")
      @@ Line2(0, One, BLANK_CHAR, 2, One, "R", BLANK_CHAR, "L")
      @@ Line2(2, Zero, START_CHAR, 2, Zero, "N", START_CHAR, "L")
      @@ Line2(2, One, START_CHAR, 2, One, "N", START_CHAR, "L")
      @@ Line2(2, BLANK_CHAR, START_CHAR, 2, BLANK_CHAR, "N", START_CHAR, "L")]

\* loops in place on a blank, accepts on 0, skips 1
Looper ==
    [n_tapes |-> 1, alphabet |-> Alphabet01,
     transitions |-> Line1(0, BLANK_CHAR, 0, BLANK_CHAR, "N")
                     @@ Line1(0, Zero, ACCEPT, Zero, "N")
                     @@ Line1(0, One, 0, One, "R")]

\* writes the start symbol in the middle of the tape
StartWriter ==
    [n_tapes |-> 1, alphabet |-> Alphabet01,
     transitions |-> Line1(0, Zero, 0, START_CHAR, "R") @@ Line1(0, One, 0, One, "R")
                     @@ Line1(0, BLANK_CHAR, ACCEPT, BLANK_CHAR, "N")]

\* blanks every '0' of the input and halts: outputs with interior blanks
BlankWriter ==
    [n_tapes |-> 1, alphabet |-> Alphabet01,
     transitions |-> Line1(0, Zero, 0, BLANK_CHAR, "R") @@ Line1(0, One, 0, One, "R")
                     @@ Line1(0, BLANK_CHAR, HALT, BLANK_CHAR, "N")]

\* writes S on cell 1 and then tries to write '0' over it
StartOverwriter ==
    [n_tapes |-> 1, alphabet |-> Alphabet01,
     transitions |-> Line1(0, Zero, 1, START_CHAR, "N") @@ Line1(1, START_CHAR, HALT, Zero, "N")
                     @@ Line1(0, One, 0, One, "R")
                     @@ Line1(0, BLANK_CHAR, ACCEPT, BLANK_CHAR, "N")]

\* state 1 is referenced but has no outgoing transition
DeadEnd ==
    [n_tapes |-> 1, alphabet |-> Alphabet01,
     transitions |-> Line1(0, Zero, 1, Zero, "R")]

\* a table with a stored transition to Reject
Rejecter ==
    [n_tapes |-> 1, alphabet |-> Alphabet01,
     transitions |-> Line1(0, One, 0, One, "R")
                     @@ Line1(0, Zero, REJECT, One, "L")
                     @@ Line1(0, BLANK_CHAR, HALT, BLANK_CHAR, "N")]

Machines ==
    {UnaryCounter, CopyMachine, ContainsZero, SentinelViolator, Looper, StartWriter,
     StartOverwriter, BlankWriter, DeadEnd, Rejecter}

\* a table over a one-symbol alphabet: halts on the first symbol it reads
Halter ==
    [n_tapes |-> 1, alphabet |-> <<Zero>>,
     transitions |-> Line1(0, Zero, HALT, Zero, "N")]

\* the words over ['0', '1'] of length n
RECURSIVE Words(_)
Words(n) ==
    IF n = 0 THEN {<<>>}
    ELSE {Append(w, c) : w \in Words(n - 1), c \in {"0", "1"}}

Inputs == UNION {Words(n) : n \in 0..MaxLen}

\* ------------------------------------------------------------------------
\* compress.py: reserved states, extraction, alphabet, state maps.
\* A state map is a function from the compile-time tuple to the compiled
\* state; the compiled state is written as the record of its stage and
\* tuple (the maps are injective, so the record stands for the fresh ID).
\* ------------------------------------------------------------------------
STATE_START == 0
STATE_INIT_GO_LEFT == 1
STATE_READY == 2
STATE_CLEANUP == 3
STATE_BLANK_INPUT == 4

HEAD_ALPHABET == {"-", "*"}

extract_moves(fun) ==
    {<<fun.transitions[key][1],
       [i \in 1..Len(fun.transitions[key][2]) |-> fun.transitions[key][2][i][2]]>> :
        key \in DOMAIN fun.transitions}

extract_trans_ins(fun) == DOMAIN fun.transitions

extract_trans_outs(fun) == {fun.transitions[key] : key \in DOMAIN fun.transitions}

\* every bit-vector, whatever the directions
possible_found_vectors_any(directions, going) ==
    [1..Len(directions) -> BOOLEAN]

possible_found_vectors(directions, going) ==
    {f \in [1..Len(directions) -> BOOLEAN] :
        \A i \in 1..Len(directions) : f[i] => directions[i] = going}

\* a direction vector that keeps its Directions.R
forget_right_keeps(directions) ==
    directions

\* every Directions.R replaced by Directions.N
forget_right(directions) ==
    [i \in 1..Len(directions) |-> IF directions[i] = "R" THEN "N" ELSE directions[i]]

generate_possible_moves(original_moves) ==
    [right |-> original_moves,
     left |-> {<<mv[1], forget_right(mv[2])>> : mv \in original_moves}]

\* "".join over product(HEAD_ALPHABET, symbols, repeat = n_tapes)
compressed_product(symbols, n_tapes) ==
    {[j \in 1..(2 * n_tapes) |-> IF j % 2 = 1 THEN h[(j + 1) \div 2] ELSE s[j \div 2]] :
        h \in [1..n_tapes -> HEAD_ALPHABET], s \in [1..n_tapes -> symbols]}

compress_alphabet(original_input_alphabet, n_tapes) ==
    [start |-> compressed_product({"S"}, n_tapes),
     non_start |-> compressed_product(
         {c[1] : c \in Range(original_input_alphabet)} \cup {"_"}, n_tapes)]

chars_apply_found(chars, found_vector) ==
    Flatten([i \in 1..Len(chars) |-> IF found_vector[i] THEN chars[i] ELSE <<" ">>])

generate_incomplete_saves(original_trans_in, n_tapes) ==
    {<<key[1], chars_apply_found(key[2], fv)>> :
        fv \in [1..n_tapes -> BOOLEAN], key \in original_trans_in}

compress_states_copying(original_alphabet) ==
    [key \in Range(original_alphabet) \X BOOLEAN |->
        MkState("copying", 0, NoSeq, NoSeq, NoSeq, NoSeq, key[1], key[2])]

compress_states_reading(incomplete_saves) ==
    [key \in incomplete_saves |->
        MkState("reading", key[1], key[2], NoSeq, NoSeq, NoSeq, NoSeq, FALSE)]

compress_states_writing(original_trans_outs) ==
    [key \in original_trans_outs |->
        MkState("writing", key[1], NoSeq, key[2], NoSeq, NoSeq, NoSeq, FALSE)]

compress_states_moving(possible_moves, going) ==
    [key \in UNION {{<<mv[1], mv[2], f>> : f \in possible_found_vectors(mv[2], going)} :
                        mv \in possible_moves} |->
        MkState(IF going = "R" THEN "moving_right" ELSE "moving_left",
                key[1], NoSeq, NoSeq, key[2], key[3], NoSeq, FALSE)]

compress_states_cleanup(original_alphabet) ==
    [key \in Range(original_alphabet) \cup {BLANK_CHAR} |->
        MkState("cleanup", 0, NoSeq, NoSeq, NoSeq, NoSeq, key, FALSE)]


\* ------------------------------------------------------------------------
\* compress.py: the stage builders.  build_transitions_stage_X(..., state_in,
\* char_in) is the set of TransitionOut the builder's loops emit under the
\* key (state_in, [char_in]).
\* ------------------------------------------------------------------------
\* the tuples a state map sends to the compiled state
KeysOf(map, state) == {key \in DOMAIN map : map[key] = state}

\* build_transition: the output half
build_transition(state_out, char_out, direction) ==
    [next |-> state_out, acts |-> << <<char_out, direction>> >>, oneshot |-> FALSE]

blank_save(n_tapes) == [i \in 1..n_tapes |-> " "]

no_heads(n_tapes) == [i \in 1..n_tapes |-> FALSE]

\* "-S" * n_tapes
compressed_start_char(n_tapes) ==
    [j \in 1..(2 * n_tapes) |-> IF j % 2 = 1 THEN "-" ELSE "S"]

\* a first cell that marks the head of the first tape only
init_multichar_with_first_head(original_char, n_tapes) ==
    <<"*">> \o original_char \o Flatten([i \in 1..(n_tapes - 1) |-> <<"-", "_">>])

init_multichar_with_heads(original_char, n_tapes) ==
    <<"*">> \o original_char \o Flatten([i \in 1..(n_tapes - 1) |-> <<"*", "_">>])

init_multichar_without_heads(original_char, n_tapes) ==
    <<"-">> \o original_char \o Flatten([i \in 1..(n_tapes - 1) |-> <<"-", "_">>])

init_multichar(original_char, placed_first, n_tapes) ==
    IF placed_first THEN init_multichar_without_heads(original_char, n_tapes)
    ELSE init_multichar_with_heads(original_char, n_tapes)

build_transitions_stage_zero(original_alphabet, copying, n_tapes, state_in, char_in) ==
    LET alphabet == Range(original_alphabet)
        cstart == compressed_start_char(n_tapes)
    IN  \* cover empty inputs
        {build_transition(NumState(STATE_BLANK_INPUT), cstart, "R") : x \in
            {x \in {0} : state_in = NumState(STATE_START) /\ char_in = BLANK_CHAR}}
        \cup
        {build_transition(NumState(STATE_READY),
                          init_multichar_with_heads(BLANK_CHAR, n_tapes), "N") : x \in
            {x \in {0} : state_in = NumState(STATE_BLANK_INPUT) /\ char_in = BLANK_CHAR}}
        \cup
        \* remember the first char, put the artificial start symbol there
        {build_transition(copying[<<replaced_char, FALSE>>], cstart, "R") : replaced_char \in
            {c \in alphabet : state_in = NumState(STATE_START) /\ char_in = c}}
        \cup
        \* shift the first char 1 to the right
        {build_transition(copying[<<char_in, TRUE>>],
                          init_multichar_with_heads(first_char, n_tapes), "R") : first_char \in
            {c \in alphabet : char_in \in alphabet /\ state_in = copying[<<c, FALSE>>]}}
        \cup
        \* shift all the rest 1 to the right
        {build_transition(copying[<<char_in, TRUE>>],
                          init_multichar_without_heads(prev_char, n_tapes), "R") : prev_char \in
            {c \in alphabet : char_in \in alphabet /\ state_in = copying[<<c, TRUE>>]}}
        \cup
        \* at the blank, write down the last char and go back
        {build_transition(NumState(STATE_INIT_GO_LEFT),
                          init_multichar(key[1], key[2], n_tapes), "L") : key \in
            {key \in alphabet \X BOOLEAN : char_in = BLANK_CHAR /\ state_in = copying[key]}}
        \cup
        \* go back, whatever is on the tape
        {build_transition(NumState(STATE_INIT_GO_LEFT), char_in, "L") : key \in
            {key \in alphabet \X BOOLEAN :
                state_in = NumState(STATE_INIT_GO_LEFT)
                /\ char_in = init_multichar(key[1], key[2], n_tapes)}}
        \cup
        \* the artificial start symbol again: ready
        {build_transition(NumState(STATE_READY), cstart, "R") : x \in
            {x \in {0} : state_in = NumState(STATE_INIT_GO_LEFT) /\ char_in = cstart}}

build_transitions_stage_zero_to_one(compressed_alphabet, reading, n_tapes, state_in, char_in) ==
    {build_transition(reading[<<0, blank_save(n_tapes)>>], c, "N") : c \in
        {c \in compressed_alphabet : state_in = NumState(STATE_READY) /\ char_in = c}}

head_clash_reading(char_in, saved_chars, n_tapes) ==
    \E i \in 1..n_tapes : char_in[2 * i - 1] = "*" /\ saved_chars[i] # " "

save_new_chars(char_in, old_saved_chars, n_tapes) ==
    [i \in 1..n_tapes |-> IF char_in[2 * i - 1] = "*" THEN char_in[2 * i]
                          ELSE old_saved_chars[i]]

build_transitions_stage_one(compressed_alphabet, reading, n_tapes, state_in, char_in) ==
    {build_transition(reading[<<key[1], save_new_chars(char_in, key[2], n_tapes)>>],
                      char_in, "R") : key \in
        {key \in KeysOf(reading, state_in) :
            /\ char_in \in compressed_alphabet
            /\ ~head_clash_reading(char_in, key[2], n_tapes)
            /\ <<key[1], save_new_chars(char_in, key[2], n_tapes)>> \in DOMAIN reading}}

\* (original_state_out, tuple(original_chars_and_dirs_out)) of the original
\* function's answer for a complete save
original_trans_out(original_function, original_state_in, complete_save) ==
    LET out == TransitionFunction_get(original_function, NumState(original_state_in),
                                      str_to_chars(complete_save))
    IN  <<out.next.q, out.acts>>

\* a hand-over to the Write stage that keeps moving Right
build_transitions_stage_one_to_two_right(original_function, reading, writing, state_in, char_in) ==
    {build_transition(writing[original_trans_out(original_function, key[1], key[2])],
                      BLANK_CHAR, "R") : key \in
        {key \in KeysOf(reading, state_in) :
            char_in = BLANK_CHAR /\ " " \notin Range(key[2])}}

build_transitions_stage_one_to_two(original_function, reading, writing, state_in, char_in) ==
    {build_transition(writing[original_trans_out(original_function, key[1], key[2])],
                      BLANK_CHAR, "L") : key \in
        {key \in KeysOf(reading, state_in) :
            char_in = BLANK_CHAR /\ " " \notin Range(key[2])}}

\* a write that ignores the head markers
write_compressed_everywhere(char_in, chars_and_dirs_out, n_tapes) ==
    [j \in 1..Len(char_in) |->
        IF j % 2 = 0 /\ j \div 2 <= n_tapes
        THEN chars_and_dirs_out[j \div 2][1][1]
        ELSE char_in[j]]

write_compressed(char_in, chars_and_dirs_out, n_tapes) ==
    [j \in 1..Len(char_in) |->
        IF j % 2 = 0 /\ j \div 2 <= n_tapes /\ char_in[j - 1] = "*"
        THEN chars_and_dirs_out[j \div 2][1][1]
        ELSE char_in[j]]

\* a test that lets every S be written
illegal_start_write_never(char_in, char_out) ==
    FALSE

illegal_start_write(char_in, char_out) ==
    "S" \notin Range(char_in) /\ "S" \in Range(char_out)

illegal_start_overwrite(char_in, char_out, n_tapes) ==
    "S" \in Range(char_in) /\ \E i \in 1..n_tapes : char_out[2 * i] # "S"

build_transitions_stage_two(compressed_alphabet, writing, n_tapes, state_in, char_in) ==
    {build_transition(state_in, write_compressed(char_in, key[2], n_tapes), "L") : key \in
        {key \in KeysOf(writing, state_in) :
            /\ char_in \in compressed_alphabet
            /\ ~illegal_start_write(char_in, write_compressed(char_in, key[2], n_tapes))
            /\ ~illegal_start_overwrite(char_in, write_compressed(char_in, key[2], n_tapes),
                                        n_tapes)}}

dirs_of(chars_and_dirs_out) ==
    [i \in 1..Len(chars_and_dirs_out) |-> chars_and_dirs_out[i][2]]

build_transitions_stage_two_to_three(compressed_start_alphabet, writing, moving_right, n_tapes, state_in, char_in) ==
    {build_transition(moving_right[<<key[1], dirs_of(key[2]), no_heads(n_tapes)>>],
                      char_in, "N") : key \in
        {key \in KeysOf(writing, state_in) : char_in \in compressed_start_alphabet}}

head_clash_moving(char_in, found_directions, n_tapes) ==
    \E i \in 1..n_tapes : char_in[2 * i - 1] = "*" /\ found_directions[i]

\* a pick-up that leaves the marker in the cell
pick_up_heads_leaves_marker(compressed_char, directions, n_tapes, desired_direction) ==
    [char |-> compressed_char,
     heads |-> [i \in 1..n_tapes |->
         compressed_char[2 * i - 1] = "*" /\ directions[i] = desired_direction]]

\* pick_up_heads: [char, heads]
pick_up_heads(compressed_char, directions, n_tapes, desired_direction) ==
    LET picked_up_heads == [i \in 1..n_tapes |->
            compressed_char[2 * i - 1] = "*" /\ directions[i] = desired_direction]
    IN  [char |-> [j \in 1..Len(compressed_char) |->
                      IF j % 2 = 1 /\ (j + 1) \div 2 <= n_tapes
                         /\ picked_up_heads[(j + 1) \div 2]
                      THEN "-" ELSE compressed_char[j]],
         heads |-> picked_up_heads]

\* a drop that sets no marker
drop_heads_nowhere(compressed_char, dropped_heads, n_tapes) ==
    compressed_char

drop_heads(compressed_char, dropped_heads, n_tapes) ==
    [j \in 1..Len(compressed_char) |->
        IF j % 2 = 1 /\ (j + 1) \div 2 <= n_tapes /\ dropped_heads[(j + 1) \div 2]
        THEN "*" ELSE compressed_char[j]]

\* the loop body shared by stages three and four
moving_transition(moving, key, char_in, n_tapes, going) ==
    LET picked == pick_up_heads(char_in, key[2], n_tapes, going)
    IN  build_transition(moving[<<key[1], key[2], picked.heads>>],
                         drop_heads(picked.char, key[3], n_tapes), going)

new_blanks(n_tapes) == [j \in 1..(2 * n_tapes) |-> IF j % 2 = 1 THEN "-" ELSE "_"]

build_transitions_stage_three(compressed_alphabet, moving_right, n_tapes, state_in, char_in) ==
    {moving_transition(moving_right, key, char_in, n_tapes, "R") : key \in
        {key \in KeysOf(moving_right, state_in) :
            char_in \in compressed_alphabet /\ ~head_clash_moving(char_in, key[3], n_tapes)}}
    \cup
    \* a blank, and heads still in hand: expand the tapes
    {build_transition(moving_right[<<key[1], key[2], no_heads(n_tapes)>>],
                      drop_heads(new_blanks(n_tapes), key[3], n_tapes), "R") : key \in
        {key \in KeysOf(moving_right, state_in) :
            char_in = BLANK_CHAR /\ key[3] # no_heads(n_tapes)}}

build_transitions_stage_three_to_four(compressed_moves_going_right, moving_right, moving_left, n_tapes, state_in, char_in) ==
    {build_transition(moving_left[<<mv[1], forget_right(mv[2]), no_heads(n_tapes)>>],
                      BLANK_CHAR, "L") : mv \in
        {mv \in compressed_moves_going_right :
            /\ char_in = BLANK_CHAR
            /\ state_in = moving_right[<<mv[1], mv[2], no_heads(n_tapes)>>]}}

build_transitions_stage_four(compressed_alphabet, moving_left, n_tapes, state_in, char_in) ==
    {moving_transition(moving_left, key, char_in, n_tapes, "L") : key \in
        {key \in KeysOf(moving_left, state_in) :
            char_in \in compressed_alphabet /\ ~head_clash_moving(char_in, key[3], n_tapes)}}

\* a hand-over to the Read stage that keeps moving Left on the raw start cell
build_transitions_stage_four_to_one_left(compressed_moves_going_left, moving_left, reading, n_tapes, state_in, char_in) ==
    {build_transition(reading[<<mv[1], blank_save(n_tapes)>>], START_CHAR, "L") : mv \in
        {mv \in compressed_moves_going_left :
            /\ mv[1] \notin EndStates
            /\ char_in = START_CHAR
            /\ state_in = moving_left[<<mv[1], mv[2], no_heads(n_tapes)>>]}}

\* a hand-over that goes back to Ready
build_transitions_stage_four_to_one_ready(compressed_moves_going_left, moving_left, reading, n_tapes, state_in, char_in) ==
    {build_transition(NumState(STATE_READY), START_CHAR, "R") : mv \in
        {mv \in compressed_moves_going_left :
            /\ mv[1] \notin EndStates
            /\ char_in = START_CHAR
            /\ state_in = moving_left[<<mv[1], mv[2], no_heads(n_tapes)>>]}}

build_transitions_stage_four_to_one(compressed_moves_going_left, moving_left, reading, n_tapes, state_in, char_in) ==
    {build_transition(reading[<<mv[1], blank_save(n_tapes)>>], START_CHAR, "R") : mv \in
        {mv \in compressed_moves_going_left :
            /\ mv[1] \notin EndStates
            /\ char_in = START_CHAR
            /\ state_in = moving_left[<<mv[1], mv[2], no_heads(n_tapes)>>]}}

\* a hand-over that ends in Halt without the Cleanup stage
build_transitions_stage_four_to_five_halts(compressed_moves_going_left, moving_left, n_tapes, state_in, char_in) ==
    {IF mv[1] \in {ACCEPT, REJECT}
     THEN build_transition(EndState(mv[1]), START_CHAR, "N")
     ELSE build_transition(EndState(mv[1]), START_CHAR, "N") : mv \in
        {mv \in compressed_moves_going_left :
            /\ mv[1] \in EndStates
            /\ char_in = START_CHAR
            /\ state_in = moving_left[<<mv[1], mv[2], no_heads(n_tapes)>>]}}

build_transitions_stage_four_to_five(compressed_moves_going_left, moving_left, n_tapes, state_in, char_in) ==
    {IF mv[1] \in {ACCEPT, REJECT}
     THEN build_transition(EndState(mv[1]), START_CHAR, "N")
     ELSE build_transition(NumState(STATE_CLEANUP), START_CHAR, "R") : mv \in
        {mv \in compressed_moves_going_left :
            /\ mv[1] \in EndStates
            /\ char_in = START_CHAR
            /\ state_in = moving_left[<<mv[1], mv[2], no_heads(n_tapes)>>]}}

\* a Cleanup that writes a blank over the start symbol
build_transitions_stage_five_blank_end(original_alphabet, compressed_start_alphabet, compressed_non_start_alphabet, cleanup, state_in, char_in) ==
    LET remembered == Range(original_alphabet) \cup {BLANK_CHAR}
    IN  \* first go right no matter what compressed char we see
        {build_transition(NumState(STATE_CLEANUP), c, "R") : c \in
            {c \in compressed_start_alphabet \cup compressed_non_start_alphabet :
                state_in = NumState(STATE_CLEANUP) /\ char_in = c}}
        \cup
        \* at the blank, go left and start copying the last tape
        {build_transition(cleanup[BLANK_CHAR], BLANK_CHAR, "L") : x \in
            {x \in {0} : state_in = NumState(STATE_CLEANUP) /\ char_in = BLANK_CHAR}}
        \cup
        \* write down the remembered char, remember the char on the last tape
        {build_transition(cleanup[<<char_in[Len(char_in)]>>], remembered_char, "L") :
            remembered_char \in
            {r \in remembered :
                char_in \in compressed_non_start_alphabet /\ state_in = cleanup[r]}}
        \cup
        \* the artificial start symbol: write the last remembered char and halt
        {build_transition(EndState(HALT), BLANK_CHAR, "N") : remembered_char \in
            {r \in remembered :
                char_in \in compressed_start_alphabet /\ state_in = cleanup[r]}}

build_transitions_stage_five(original_alphabet, compressed_start_alphabet, compressed_non_start_alphabet, cleanup, state_in, char_in) ==
    LET remembered == Range(original_alphabet) \cup {BLANK_CHAR}
    IN  \* first go right no matter what compressed char we see
        {build_transition(NumState(STATE_CLEANUP), c, "R") : c \in
            {c \in compressed_start_alphabet \cup compressed_non_start_alphabet :
                state_in = NumState(STATE_CLEANUP) /\ char_in = c}}
        \cup
        \* at the blank, go left and start copying the last tape
        {build_transition(cleanup[BLANK_CHAR], BLANK_CHAR, "L") : x \in
            {x \in {0} : state_in = NumState(STATE_CLEANUP) /\ char_in = BLANK_CHAR}}
        \cup
        \* write down the remembered char, remember the char on the last tape
        {build_transition(cleanup[<<char_in[Len(char_in)]>>], remembered_char, "L") :
            remembered_char \in
            {r \in remembered :
                char_in \in compressed_non_start_alphabet /\ state_in = cleanup[r]}}
        \cup
        \* the artificial start symbol: write the last remembered char and halt
        {build_transition(EndState(HALT), remembered_char, "N") : remembered_char \in
            {r \in remembered :
                char_in \in compressed_start_alphabet /\ state_in = cleanup[r]}}

\* ------------------------------------------------------------------------
\* compress.py: compress()
\* ------------------------------------------------------------------------
\* what compress() computes before it builds the transitions
compress_artifacts(original_function) ==
    LET n_tapes == original_function.n_tapes
        original_input_alphabet == original_function.alphabet
        alphabets == compress_alphabet(original_input_alphabet, n_tapes)
        moves == generate_possible_moves(extract_moves(original_function))
    IN  [n_tapes |-> n_tapes,
         alphabet |-> original_input_alphabet,
         start_alphabet |-> alphabets.start,
         non_start_alphabet |-> alphabets.non_start,
         compressed_alphabet |-> alphabets.start \cup alphabets.non_start,
         moves_right |-> moves.right,
         moves_left |-> moves.left,
         copying |-> compress_states_copying(original_input_alphabet),
         reading |-> compress_states_reading(
             generate_incomplete_saves(extract_trans_ins(original_function), n_tapes)),
         writing |-> compress_states_writing(extract_trans_outs(original_function)),
         moving_right |-> compress_states_moving(moves.right, "R"),
         moving_left |-> compress_states_moving(moves.left, "L"),
         cleanup |-> compress_states_cleanup(original_input_alphabet)]

\* the state-map lookups of the builders that can miss (KeyError)
compress_error(original_function) ==
    LET a == compress_artifacts(original_function)
        blanks == blank_save(a.n_tapes)
    IN  IF \/ <<0, blanks>> \notin DOMAIN a.reading
           \/ \E key \in DOMAIN a.reading :
                 /\ " " \notin Range(key[2])
                 /\ original_trans_out(original_function, key[1], key[2])
                        \notin DOMAIN a.writing
           \/ \E mv \in a.moves_left :
                 mv[1] \notin EndStates /\ <<mv[1], blanks>> \notin DOMAIN a.reading
        THEN "KeyError"
        ELSE NoError

\* compressed_transitions, in the order compress() concatenates the
\* builders' lists, restricted to the key (state_in, [char_in])
compressed_transitions(original_function, state_in, char_in) ==
    LET a == compress_artifacts(original_function)
    IN  << build_transitions_stage_zero(a.alphabet, a.copying, a.n_tapes, state_in, char_in),
           build_transitions_stage_zero_to_one(a.compressed_alphabet, a.reading, a.n_tapes,
                                               state_in, char_in),
           build_transitions_stage_one(a.compressed_alphabet, a.reading, a.n_tapes,
                                       state_in, char_in),
           build_transitions_stage_one_to_two(original_function, a.reading, a.writing,
                                              state_in, char_in),
           build_transitions_stage_two(a.compressed_alphabet, a.writing, a.n_tapes,
                                       state_in, char_in),
           build_transitions_stage_two_to_three(a.start_alphabet, a.writing, a.moving_right,
                                                a.n_tapes, state_in, char_in),
           build_transitions_stage_three(a.compressed_alphabet, a.moving_right, a.n_tapes,
                                         state_in, char_in),
           build_transitions_stage_three_to_four(a.moves_right, a.moving_right,
                                                 a.moving_left, a.n_tapes, state_in, char_in),
           build_transitions_stage_four(a.compressed_alphabet, a.moving_left, a.n_tapes,
                                        state_in, char_in),
           build_transitions_stage_four_to_one(a.moves_left, a.moving_left, a.reading,
                                               a.n_tapes, state_in, char_in),
           build_transitions_stage_four_to_five(a.moves_left, a.moving_left, a.n_tapes,
                                                state_in, char_in),
           build_transitions_stage_five(a.alphabet, a.start_alphabet, a.non_start_alphabet,
                                        a.cleanup, state_in, char_in) >>

\* the states of compress(original_function): the reserved ones and those of
\* the state maps
compressed_states(original_function) ==
    LET a == compress_artifacts(original_function)
    IN  {NumState(n) : n \in {STATE_START, STATE_INIT_GO_LEFT, STATE_READY, STATE_CLEANUP,
                               STATE_BLANK_INPUT}}
        \cup Range(a.copying) \cup Range(a.reading) \cup Range(a.writing)
        \cup Range(a.moving_right) \cup Range(a.moving_left) \cup Range(a.cleanup)

\* an _add that keeps the entry inserted first
compress_get_keeps_first(original_function, state, chars) ==
    LET emitted == IF Len(chars) = 1
                   THEN compressed_transitions(original_function, state, chars[1])
                   ELSE <<>>
        hits == {i \in DOMAIN emitted : emitted[i] # {}}
    IN  IF hits = {} THEN TransitionFunction_default(1, chars)
        ELSE CHOOSE out \in emitted[CHOOSE i \in hits : \A j \in hits : i <= j] : TRUE

\* TransitionFunction.get on compress(original_function): _add in list
\* order, a later entry replacing an earlier one with the same key
compress_get(original_function, state, chars) ==
    LET emitted == IF Len(chars) = 1
                   THEN compressed_transitions(original_function, state, chars[1])
                   ELSE <<>>
        hits == {i \in DOMAIN emitted : emitted[i] # {}}
    IN  IF hits = {} THEN TransitionFunction_default(1, chars)
        ELSE CHOOSE out \in emitted[CHOOSE i \in hits : \A j \in hits : j <= i] : TRUE

\* ------------------------------------------------------------------------
\* transitions.py: the encoded table.  The text of a file is a sequence of
\* characters; NL stands for the line terminator (os.linesep when written,
\* '\n' when read).
\* ------------------------------------------------------------------------
NL == "NL"

Whitespace == {" ", NL}

Digits == <<"0", "1", "2", "3", "4", "5", "6", "7", "8", "9">>

\* str(n) of a non-negative int
RECURSIVE int_to_str(_)
int_to_str(n) ==
    IF n < 10 THEN <<Digits[n + 1]>>
    ELSE int_to_str(n \div 10) \o <<Digits[(n % 10) + 1]>>

\* str.strip() as int() applies it to its argument
RECURSIVE strip(_)
strip(text) ==
    IF text # <<>> /\ text[1] \in Whitespace THEN strip(Tail(text))
    ELSE IF text # <<>> /\ text[Len(text)] \in Whitespace
         THEN strip(SubSeq(text, 1, Len(text) - 1))
         ELSE text

\* int(text) raises ValueError unless the stripped text is a numeral
is_int(text) ==
    strip(text) # <<>> /\ \A i \in 1..Len(strip(text)) : strip(text)[i] \in Range(Digits)

RECURSIVE numeral_value(_)
numeral_value(digits) ==
    IF digits = <<>> THEN 0
    ELSE 10 * numeral_value(SubSeq(digits, 1, Len(digits) - 1))
         + (CHOOSE d \in 0..9 : Digits[d + 1] = digits[Len(digits)])

str_to_int(text) == numeral_value(strip(text))

\* str.split(sep) for a separator of one character
RECURSIVE split(_, _, _)
split(string, sep, cur) ==
    IF string = <<>> THEN <<cur>>
    ELSE IF Head(string) = sep THEN <<cur>> \o split(Tail(string), sep, <<>>)
    ELSE split(Tail(string), sep, Append(cur, Head(string)))

\* the lines f.readline() returns one after the other, each with its
\* terminator, the last one possibly without
RECURSIVE readlines(_, _)
readlines(text, cur) ==
    IF text = <<>> THEN (IF cur = <<>> THEN <<>> ELSE <<cur>>)
    ELSE IF Head(text) = NL THEN <<Append(cur, NL)>> \o readlines(Tail(text), <<>>)
    ELSE readlines(Tail(text), Append(cur, Head(text)))

\* os.linesep.join(lines)
RECURSIVE join_lines(_)
join_lines(lines) ==
    IF lines = <<>> THEN <<>>
    ELSE IF Len(lines) = 1 THEN lines[1]
    ELSE lines[1] \o <<NL>> \o join_lines(Tail(lines))

sanitize(line) == SelectSeq(line, LAMBDA c : c \notin Whitespace)

\* the index of the first line at or after i that is not a comment, 0 when
\* the file ends first (skip_comments returns None)
RECURSIVE skip_comments(_, _)
skip_comments(lines, i) ==
    IF i > Len(lines) THEN 0
    ELSE IF lines[i][1] # "#" THEN i
    ELSE skip_comments(lines, i + 1)

END_STATE_CHARS == {"y", "n", "h"}

EndStates_value(e) == IF e = ACCEPT THEN "y" ELSE IF e = REJECT THEN "n" ELSE "h"

EndStates_of(c) == IF c = "y" THEN ACCEPT ELSE IF c = "n" THEN REJECT ELSE HALT

\* A table as an object: [n_states, n_tapes, alphabet, transitions]
NoTable == [n_states |-> 0, n_tapes |-> 0, alphabet |-> <<>>, transitions |-> <<>>]

\* from_file raised e: no table is returned
Failed(e) == [error |-> e, table |-> NoTable]

TransitionFunction_parse_line(line, n_tapes) ==
    LET entries == split(sanitize(line), ",", <<>>)
        state_out == entries[n_tapes + 2]
        rest == SubSeq(entries, n_tapes + 3, Len(entries))
        no_line == [error |-> "AssertionError", key |-> <<>>, out |-> <<>>]
    IN  IF Len(entries) # 2 + 3 * n_tapes THEN no_line
        ELSE IF ~is_int(entries[1]) THEN [no_line EXCEPT !.error = "ValueError"]
        ELSE IF ~(state_out \in {<<c>> : c \in END_STATE_CHARS} \/ is_int(state_out))
             THEN [no_line EXCEPT !.error = "ValueError"]
        ELSE IF \E t \in 1..n_tapes : rest[2 * t] \notin {<<d>> : d \in Directions}
             THEN [no_line EXCEPT !.error = "ValueError"]
        ELSE [error |-> NoError,
              key |-> to_key(str_to_int(entries[1]), SubSeq(entries, 2, n_tapes + 1)),
              out |-> << IF state_out \in {<<c>> : c \in END_STATE_CHARS}
                         THEN EndStates_of(state_out[1])
                         ELSE str_to_int(state_out),
                         [t \in 1..n_tapes |-> <<rest[2 * t - 1], rest[2 * t][1]>>] >>]

\* the non-terminal states of a transition
observed_states_of(key, out) ==
    {key[1]} \cup (IF out[1] \in EndStates THEN {} ELSE {out[1]})

\* the symbols of a transition are in the alphabet or special
chars_in_alphabet(key, out, alphabet) ==
    /\ \A t \in 1..Len(key[2]) : key[2][t] \in Range(alphabet) \cup Range(SPECIAL_CHARS)
    /\ \A t \in 1..Len(out[2]) : out[2][t][1] \in Range(alphabet) \cup Range(SPECIAL_CHARS)

\* the loop of from_file over the transition lines, from line i on: it ends
\* at the end of the file or at a line that is empty once sanitized
RECURSIVE read_transitions(_, _, _, _, _)
read_transitions(lines, i, n_tapes, alphabet, acc) ==
    IF i > Len(lines) \/ sanitize(lines[i]) = <<>> THEN acc
    ELSE IF sanitize(lines[i])[1] = "#"
    THEN read_transitions(lines, i + 1, n_tapes, alphabet, acc)
    ELSE LET parsed == TransitionFunction_parse_line(lines[i], n_tapes)
         IN  IF parsed.error # NoError THEN [acc EXCEPT !.error = parsed.error]
             ELSE IF ~chars_in_alphabet(parsed.key, parsed.out, alphabet)
             THEN [acc EXCEPT !.error = "AssertionError"]
             ELSE read_transitions(lines, i + 1, n_tapes, alphabet,
                      [acc EXCEPT
                          !.transitions = (parsed.key :> parsed.out) @@ acc.transitions,
                          !.observed_states = acc.observed_states
                                              \cup observed_states_of(parsed.key, parsed.out),
                          !.observed_lines = acc.observed_lines + 1])

\* variant: only the line count is asserted
from_file_asserts_lines_only(n_lines, n_states, observed_lines, observed_states) ==
    n_lines = observed_lines

\* the two assertions at the end of from_file
from_file_asserts(n_lines, n_states, observed_lines, observed_states) ==
    n_lines = observed_lines /\ n_states = Cardinality(observed_states)

\* from_file on the lines f.readline() returns
from_file_lines(lines) ==
    LET first == skip_comments(lines, 1)
        fields == split(lines[first], " ", <<>>)
        second == skip_comments(lines, first + 1)
        alphabet == split(sanitize(lines[second]), ",", <<>>)
        n_states == str_to_int(fields[1])
        n_tapes == str_to_int(fields[2])
        alphabet_size == str_to_int(fields[3])
        n_lines == str_to_int(fields[4])
        read == read_transitions(lines, second + 1, n_tapes, alphabet,
                    [transitions |-> <<>>, observed_states |-> {}, observed_lines |-> 0,
                     error |-> NoError])
    IN  IF first = 0 THEN Failed("AttributeError")
        ELSE IF Len(fields) # 4 \/ \E k \in 1..Len(fields) : ~is_int(fields[k])
        THEN Failed("ValueError")
        ELSE IF second = 0 THEN Failed("TypeError")
        ELSE IF alphabet_size # Len(alphabet) THEN Failed("AssertionError")
        ELSE IF read.error # NoError THEN Failed(read.error)
        ELSE IF ~from_file_asserts(n_lines, n_states, read.observed_lines,
                                   read.observed_states)
        THEN Failed("AssertionError")
        ELSE [error |-> NoError,
              table |-> [n_states |-> n_states, n_tapes |-> n_tapes, alphabet |-> alphabet,
                         transitions |-> read.transitions]]

TransitionFunction_from_file(text) == from_file_lines(readlines(text, <<>>))

transition_to_str(t_in, t_out) ==
    LET chars_in_str == JoinWith(<<",">>, t_in[2])
        chars_and_dirs_out_str ==
            JoinWith(<<",">>, [t \in 1..Len(t_out[2]) |->
                                  t_out[2][t][1] \o <<",", t_out[2][t][2]>>])
        state_out == IF t_out[1] \in EndStates THEN <<EndStates_value(t_out[1])>>
                     ELSE int_to_str(t_out[1])
    IN  int_to_str(t_in[1]) \o <<",">> \o chars_in_str \o <<",">> \o state_out
        \o <<",">> \o chars_and_dirs_out_str

\* the keys of a table in the order save() iterates over them
RECURSIVE items(_)
items(keys) ==
    IF keys = {} THEN <<>>
    ELSE LET key == CHOOSE k \in keys : TRUE
         IN  <<key>> \o items(keys \ {key})

\* variant: the header declares the state count as the transition count
TransitionFunction_save_declares_states(table) ==
    LET comment == <<"#", " ", "s">>
        firstline == int_to_str(table.n_states) \o <<" ">> \o int_to_str(table.n_tapes)
                     \o <<" ">> \o int_to_str(Len(table.alphabet))
                     \o <<" ">> \o int_to_str(table.n_states)
        secondline == JoinWith(<<",">>, table.alphabet)
        keys == items(DOMAIN table.transitions)
        transitions_lines == [k \in 1..Len(keys) |->
                                 transition_to_str(keys[k], table.transitions[keys[k]])]
    IN  join_lines(<<comment, firstline, secondline>> \o transitions_lines)

\* the comment, the header and the alphabet line save() writes first
save_header(table) ==
    LET comment == <<"#", " ", "s">>
        firstline == int_to_str(table.n_states) \o <<" ">> \o int_to_str(table.n_tapes)
                     \o <<" ">> \o int_to_str(Len(table.alphabet))
                     \o <<" ">> \o int_to_str(Cardinality(DOMAIN table.transitions))
        secondline == JoinWith(<<",">>, table.alphabet)
    IN  <<comment, firstline, secondline>>

\* the lines TransitionFunction.save joins with os.linesep
save_lines(table) ==
    LET keys == items(DOMAIN table.transitions)
        transitions_lines == [k \in 1..Len(keys) |->
                                 transition_to_str(keys[k], table.transitions[keys[k]])]
    IN  save_header(table) \o transitions_lines

\* TransitionFunction.save: the text written to the file
TransitionFunction_save(table) == join_lines(save_lines(table))

\* readlines(join_lines(lines), <<>>) for lines without a terminator in
\* them: every line but the last comes back with its terminator
lines_read_back(lines) ==
    [i \in 1..Len(lines) |-> IF i < Len(lines) THEN Append(lines[i], NL) ELSE lines[i]]

\* ------------------------------------------------------------------------
\* Encoded files given to from_file: a header, an alphabet line and a body
\* of transition lines and comment lines
\* ------------------------------------------------------------------------
Row(key, out, pad) == [kind |-> "row", key |-> key, out |-> out, pad |-> pad]

CommentLine == [kind |-> "comment", key |-> <<>>, out |-> <<>>, pad |-> FALSE]

\* a symbol of more than one character, as the compiled tables have
MarkedZero == <<"-", "0">>

BodyLines ==
    { Row(<<0, <<Zero>>>>, <<0, << <<Zero, "R">> >>>>, FALSE),
      Row(<<0, <<Zero>>>>, <<0, << <<Zero, "R">> >>>>, TRUE),
      Row(<<0, <<Zero>>>>, <<1, << <<Zero, "N">> >>>>, FALSE),
      Row(<<0, <<One>>>>, <<1, << <<One, "R">> >>>>, FALSE),
      Row(<<1, <<BLANK_CHAR>>>>, <<HALT, << <<BLANK_CHAR, "N">> >>>>, TRUE),
      Row(<<10, <<Zero>>>>, <<10, << <<Zero, "L">> >>>>, FALSE),
      Row(<<1, <<MarkedZero>>>>, <<REJECT, << <<MarkedZero, "L">> >>>>, FALSE),
      Row(<<0, <<Zero, BLANK_CHAR>>>>,
          <<ACCEPT, << <<Zero, "N">>, <<START_CHAR, "R">> >>>>, FALSE),
      CommentLine }

RECURSIVE Bodies(_)
Bodies(n) ==
    IF n = 0 THEN {<<>>}
    ELSE {Append(body, line) : body \in Bodies(n - 1), line \in BodyLines}

NoOrigin ==
    [structured |-> FALSE, n_states |-> 0, n_tapes |-> 0, alphabet_size |-> 0,
     n_lines |-> 0, alphabet |-> <<>>, body |-> <<>>]

Origins ==
    [structured : {TRUE}, n_states : 1..MaxCount, n_tapes : {1, 2},
     alphabet_size : 1..MaxCount, n_lines : 1..MaxCount,
     alphabet : {<<Zero>>, <<One, MarkedZero>>},
     body : UNION {Bodies(n) : n \in 0..MaxBody}]

\* a transition line with a space after every comma
padded(line) ==
    Flatten([i \in 1..Len(line) |-> IF line[i] = "," THEN <<",", " ">> ELSE <<line[i]>>])

body_line(item) ==
    IF item.kind = "comment" THEN <<"#", "c">>
    ELSE IF item.pad THEN padded(transition_to_str(item.key, item.out))
    ELSE transition_to_str(item.key, item.out)

\* the text of the file: every line with its terminator
encoded(origin) ==
    LET firstline == int_to_str(origin.n_states) \o <<" ">> \o int_to_str(origin.n_tapes)
                     \o <<" ">> \o int_to_str(origin.alphabet_size)
                     \o <<" ">> \o int_to_str(origin.n_lines)
        secondline == JoinWith(<<",">>, origin.alphabet)
    IN  join_lines(<< <<"#", "c">>, firstline, secondline >>
                   \o [k \in 1..Len(origin.body) |-> body_line(origin.body[k])])
        \o <<NL>>

Files == {[text |-> encoded(origin), origin |-> origin] : origin \in Origins}

NoFile == [text |-> <<>>, origin |-> NoOrigin]

NotLoaded == [error |-> "pending", table |-> NoTable]

NotSaved == [done |-> FALSE, table |-> NoTable]

\* ------------------------------------------------------------------------
\* The system: a source machine and the machine compiled from it, each
\* constructed, reset by run(input) and stepped by the loop of run()
\* ------------------------------------------------------------------------
VARIABLES fun, input, src_cls, cmp_cls, src, cmp, compiled, cycles, rerun,
          file, loaded, saved, entry, probe

vars == <<fun, input, src_cls, cmp_cls, src, cmp, compiled, cycles, rerun,
          file, loaded, saved, entry, probe>>

\* what the runs of the two machines leave alone
tool_vars == <<file, loaded, saved, probe>>

machine_vars == <<fun, input, src_cls, cmp_cls, src, cmp, compiled, cycles, rerun, entry>>

\* the compiled tape as it was when the compiled machine last entered the
\* Move-Right stage (with the direction vector of that state) and when it
\* entered Cleanup
NoEntry == [moving |-> <<>>, dirs |-> <<>>, cleanup |-> <<>>]

\* the key (state, symbol) of the compiled table that is looked up
NoProbe == [state |-> NumState(0), char |-> <<>>, looked |-> FALSE]

Init ==
    /\ fun \in Machines
    /\ input \in Inputs
    /\ src_cls \in TapeClasses
    /\ cmp_cls \in TapeClasses
    /\ src = TuringMachine_reset(fun.n_tapes, src_cls, input)
    /\ cmp = TuringMachine_reset(1, cmp_cls, input)
    /\ compiled = "pending"
    /\ cycles = 0
    /\ rerun = FALSE
    /\ file = NoFile
    /\ loaded = NotLoaded
    /\ saved = NotSaved
    /\ entry = NoEntry
    /\ probe = NoProbe

\* TuringMachine.step of the source machine
TuringMachine_step(m) ==
    TuringMachine_apply(m, TransitionFunction_get(fun, m.state, TuringMachine_read(m.tapes)))

\* TuringMachine.step of the compiled machine
TuringMachine_step_compressed(m) ==
    TuringMachine_apply(m, compress_get(fun, m.state, TuringMachine_read(m.tapes)))

Running(m) == ~is_endstate(m.state) /\ m.error = NoError

\* one iteration of the loop of run() on the source machine
SourceStep ==
    /\ Running(src)
    /\ src.time < MaxSrcTime
    /\ src' = TuringMachine_step(src)
    /\ UNCHANGED <<fun, input, src_cls, cmp_cls, cmp, compiled, cycles, rerun, tool_vars, entry>>

\* compress(fun)
Compress ==
    /\ compiled = "pending"
    /\ compiled' = IF compress_error(fun) = NoError THEN "ok" ELSE compress_error(fun)
    /\ UNCHANGED <<fun, input, src_cls, cmp_cls, src, cmp, cycles, rerun, tool_vars, entry>>

\* one iteration of the loop of run() on the compiled machine
CompiledStep ==
    /\ compiled = "ok"
    /\ Running(cmp)
    /\ cmp.time < MaxCmpTime
    /\ cmp' = TuringMachine_step_compressed(cmp)
    /\ cycles' = IF cmp.state.stage = "moving_left" /\ cmp'.state.stage = "reading"
                 THEN cycles + 1 ELSE cycles
    /\ entry' = IF cmp.state.stage = "writing" /\ cmp'.state.stage = "moving_right"
                THEN [entry EXCEPT !.moving = cmp'.tapes[1].chars, !.dirs = cmp'.state.dirs]
                ELSE IF cmp.state.stage = "moving_left"
                        /\ cmp'.state = NumState(STATE_CLEANUP)
                THEN [entry EXCEPT !.cleanup = cmp'.tapes[1].chars]
                ELSE entry
    /\ UNCHANGED <<fun, input, src_cls, cmp_cls, src, compiled, rerun, tool_vars>>

\* the run of both machine objects is over (returned or raised)
RunsOver ==
    /\ ~Running(src)
    /\ compiled # "pending"
    /\ compiled = "ok" => ~Running(cmp)

\* the same machine objects are run on the next word, as test_compression
\* does for each word of its list
Rerun ==
    /\ RunsOver
    /\ \E word \in Inputs :
           /\ input' = word
           /\ src' = TuringMachine_run(src, fun.n_tapes, src_cls, word)
           /\ cmp' = TuringMachine_run(cmp, 1, cmp_cls, word)
    /\ cycles' = 0
    /\ rerun' = TRUE
    /\ entry' = NoEntry
    /\ UNCHANGED <<fun, src_cls, cmp_cls, compiled, tool_vars>>

Next == SourceStep \/ Compress \/ CompiledStep \/ Rerun

Spec == Init /\ [][Next]_vars

\* ------------------------------------------------------------------------
\* The encoded-table tools: a file is loaded, the loaded table is saved and
\* the saved file is loaded again (as compress.py's main does with its
\* output file)
\* ------------------------------------------------------------------------
ParserInit ==
    /\ fun = UnaryCounter
    /\ input = <<>>
    /\ src_cls = "SingleCharTape"
    /\ cmp_cls = "MultiCharTape"
    /\ src = TuringMachine_reset(fun.n_tapes, src_cls, input)
    /\ cmp = TuringMachine_reset(1, cmp_cls, input)
    /\ compiled = "pending"
    /\ cycles = 0
    /\ rerun = FALSE
    /\ file \in Files
    /\ loaded = NotLoaded
    /\ saved = NotSaved
    /\ entry = NoEntry
    /\ probe = NoProbe

\* TransitionFunction.from_file(file)
Load ==
    /\ loaded = NotLoaded
    /\ loaded' = TransitionFunction_from_file(file.text)
    /\ UNCHANGED <<file, saved, probe, machine_vars>>

\* table.save(file) on the table that was loaded
Save ==
    /\ loaded.error = NoError
    /\ ~saved.done
    /\ saved' = [done |-> TRUE, table |-> loaded.table]
    /\ file' = [text |-> TransitionFunction_save(loaded.table), origin |-> NoOrigin]
    /\ loaded' = NotLoaded
    /\ UNCHANGED <<probe, machine_vars>>

ParserNext == Load \/ Save

ParserSpec == ParserInit /\ [][ParserNext]_vars

\* ------------------------------------------------------------------------
\* Observations used by the properties
\* ------------------------------------------------------------------------
\* test.py same_output, once both machines halted
same_output(out1, out2) == str_to_multistr(out1) = str_to_multistr(out2)

RECURSIVE StripBlanks(_)
StripBlanks(chars) ==
    IF chars # <<>> /\ chars[Len(chars)] = BLANK_CHAR
    THEN StripBlanks(SubSeq(chars, 1, Len(chars) - 1))
    ELSE chars

\* the compressed cells of the compiled tape (the cells right of raw cell 0
\* that hold a compressed symbol)
VirtualCells(tape, n_tapes) ==
    SelectSeq(Tail(tape.chars), LAMBDA c : Len(c) = 2 * n_tapes)

\* virtual tape i: the cell-symbols at (0-based) position 2i + 1
VirtualTape(tape, n_tapes, i) ==
    LET cells == VirtualCells(tape, n_tapes)
    IN  [j \in 1..Len(cells) |-> <<cells[j][2 * i]>>]

\* the (0-based) virtual cells whose marker for tape i is '*'
VirtualHeads(tape, n_tapes, i) ==
    LET cells == VirtualCells(tape, n_tapes)
    IN  {j - 1 : j \in {j \in 1..Len(cells) : cells[j][2 * i - 1] = "*"}}

\* the compiled tape decodes to the configuration of the source machine
DecodesTo(tape, m) ==
    \A i \in 1..Len(m.tapes) :
        /\ StripBlanks(VirtualTape(tape, Len(m.tapes), i)) = StripBlanks(m.tapes[i].chars)
        /\ VirtualHeads(tape, Len(m.tapes), i) = {m.tapes[i].head}

\* the machine is back in the configuration run() started it in, after at
\* least one step: being deterministic, it never reaches an end state
NeverEnds(m, n_tapes, tape_cls) ==
    /\ m.time > 0
    /\ Running(m)
    /\ m.tapes = TuringMachine_reset(n_tapes, tape_cls, input).tapes
    /\ m.state = NumState(0)

Stored(table, state, chars) == to_key(state.q, chars) \in DOMAIN table.transitions

\* ------------------------------------------------------------------------
\* Properties
\* ------------------------------------------------------------------------

\* C1: whenever the source machine (on the single-symbol tape) and the
\* machine compiled from it (on the multi-symbol tape) both reached an end
\* state on the same input, it is the same end state.
C1_SameEndState ==
    (/\ compiled = "ok" /\ src_cls = "SingleCharTape" /\ cmp_cls = "MultiCharTape"
     /\ is_endstate(src.state) /\ is_endstate(cmp.state))
    => cmp.state = src.state

\* C2: whenever the source machine ended in Halt and the compiled machine
\* (on the multi-symbol tape) ended, the compiled machine ended in Halt and
\* the output of its tape equals the output of the source's last tape.
C2_SameHaltOutput ==
    (/\ compiled = "ok" /\ src_cls = "SingleCharTape" /\ cmp_cls = "MultiCharTape"
     /\ src.state = EndState(HALT) /\ is_endstate(cmp.state))
    => /\ cmp.state = EndState(HALT)
       /\ same_output(TuringMachine_output(src_cls, src), TuringMachine_output(cmp_cls, cmp))

\* C3: the compiled machine reaches an end state iff the source machine
\* does: the compiled machine has not ended when the source machine never
\* ends, and it has neither failed nor fallen into a loop when the source
\* machine has ended.
C3_EndsIffSourceEnds ==
    (compiled = "ok" /\ src_cls = "SingleCharTape" /\ cmp_cls = "MultiCharTape")
    => /\ is_endstate(cmp.state) => ~NeverEnds(src, fun.n_tapes, src_cls)
       /\ is_endstate(src.state) => (cmp.error = NoError /\ ~NeverEnds(cmp, 1, cmp_cls))

\* C4: whenever the compiled machine is in the Read stage's initial state
\* for source state q, having completed as many macro-cycles as the source
\* machine has taken steps, the source machine is in state q and the
\* compiled tape decodes to the source machine's tapes and head positions.
C4_MacroCycleSimulatesStep ==
    (/\ compiled = "ok" /\ src_cls = "SingleCharTape"
     /\ cmp.state.stage = "reading" /\ cmp.state.save = blank_save(fun.n_tapes)
     /\ src.error = NoError /\ src.time = cycles)
    => /\ src.state = NumState(cmp.state.q)
       /\ DecodesTo(cmp.tapes[1], src)

\* C4 witness: a 2-tape simulation is back in the Read stage after three
\* macro-cycles while the source machine has taken three steps.
C4_Witness ==
    /\ fun = CopyMachine /\ compiled = "ok" /\ src_cls = "SingleCharTape"
    /\ cmp.state.stage = "reading" /\ cmp.state.save = blank_save(fun.n_tapes)
    /\ cycles = 3 /\ src.time = 3 /\ src.error = NoError

\* C5: a step that raises a fatal tape error leaves the tapes, the head
\* positions, the state and the step count as they were before the step.
C5_FatalErrorMutatesNothing ==
    [][(src.error = NoError /\ src'.error # NoError)
        => (src'.tapes = src.tapes /\ src'.state = src.state /\ src'.time = src.time)]_vars

\* C6: when run(w) starts, tape 0 holds [S, c1, ..., cn, _] with the head on
\* cell 1, every other tape holds [S, _] with the head on cell 1, and on the
\* empty input the first symbol read is the blank.
C6_InitialTapes ==
    src.time = 0
    => /\ src.tapes[1] = [chars |-> <<START_CHAR>> \o str_to_chars(input) \o <<BLANK_CHAR>>,
                          head |-> 1]
       /\ \A i \in 2..Len(src.tapes) :
              src.tapes[i] = [chars |-> <<START_CHAR, BLANK_CHAR>>, head |-> 1]
       /\ input = <<>> => Tape_read(src.tapes[1]) = BLANK_CHAR

\* C7: the lookup of a key with no stored entry answers Reject with, for
\* each tape, the symbol read and direction Neutral, and a step taken on
\* such a key leaves every tape and head unchanged and sets the state to
\* Reject.
C7_DefaultRejection ==
    [][(src'.time = src.time + 1 /\ ~Stored(fun, src.state, TuringMachine_read(src.tapes)))
        => LET chars == TuringMachine_read(src.tapes)
               out == TransitionFunction_get(fun, src.state, chars)
           IN  /\ out.next = EndState(REJECT)
               /\ out.acts = [i \in 1..fun.n_tapes |-> <<chars[i], "N">>]
               /\ src'.tapes = src.tapes
               /\ src'.state = EndState(REJECT)
               /\ src'.error = NoError]_vars

\* C7 witness: a run ended in Reject under a table that stores no
\* transition to Reject.
C7_Witness ==
    /\ src.state = EndState(REJECT)
    /\ \A key \in DOMAIN fun.transitions : fun.transitions[key][1] # REJECT

Delta(direction) == IF direction = "L" THEN -1 ELSE IF direction = "R" THEN 1 ELSE 0

\* the cells of a tape after a write of char on cell at and a move to cell to
WrittenAndMoved(chars, at, char, to) ==
    LET written == [chars EXCEPT ![at + 1] = char]
    IN  IF to >= Len(chars) THEN Append(written, BLANK_CHAR) ELSE written

\* C8: in a step that raises no error, the symbols written and the
\* directions are those the table answers for the symbols under the heads
\* before the step, each write lands on the cell that was read, each head
\* then moves by its direction, the state becomes the answered state and the
\* step count grows by exactly one.
C8_StepOrder ==
    [][(src'.time = src.time + 1 /\ src'.error = NoError)
        => LET chars == TuringMachine_read(src.tapes)
               out == TransitionFunction_get(fun, src.state, chars)
           IN  /\ \A i \in 1..fun.n_tapes :
                      /\ src'.tapes[i].head = src.tapes[i].head + Delta(out.acts[i][2])
                      /\ src'.tapes[i].chars =
                             WrittenAndMoved(src.tapes[i].chars, src.tapes[i].head,
                                             out.acts[i][1], src'.tapes[i].head)
               /\ src'.state = out.next
               /\ src'.time = src.time + 1]_vars

\* C8 witness: the copy machine after its first step on a non-empty input:
\* both tapes written on cell 1, both heads on cell 2.
C8_Witness ==
    /\ fun = CopyMachine /\ input # <<>> /\ src_cls = "SingleCharTape"
    /\ src.time = 1 /\ src.error = NoError
    /\ src.tapes[2].chars[2] = <<input[1]>>
    /\ src.tapes[1].head = 2 /\ src.tapes[2].head = 2

\* C9: cell 0 of every tape of the source machine and of the compiled
\* machine holds S in every reachable state.
C9_SentinelImmutable ==
    /\ \A i \in 1..Len(src.tapes) : src.tapes[i].chars[1] = START_CHAR
    /\ \A i \in 1..Len(cmp.tapes) : cmp.tapes[i].chars[1] = START_CHAR

\* C9 witness: a write of a non-S symbol on the sentinel was refused.
C9_Witness ==
    /\ src.error = "RuntimeError"
    /\ \E i \in 1..Len(src.tapes) : src.tapes[i].head = 0

\* C10: no cell with index >= 1 of a tape ever holds S (a write of S
\* succeeds only on cell 0).
C10_StartOnlyOnCellZero ==
    \A i \in 1..Len(src.tapes) :
        \A j \in 2..Len(src.tapes[i].chars) : src.tapes[i].chars[j] # START_CHAR

\* the symbols written and the directions taken by the step of m under answer out
WrittenChars(out) == [i \in 1..Len(out.acts) |-> out.acts[i][1]]

MovedDirections(out) ==
    [i \in 1..Len(out.acts) |-> IF out.oneshot THEN "N" ELSE out.acts[i][2]]

\* C11: a step fails with the write error exactly when some tape has its head
\* on cell 0 and is to be written with a symbol other than S, and with the
\* move error exactly when no write is refused and some tape has its head on
\* cell 0 and is to move Left; every other step succeeds.
C11_OnlySentinelErrors ==
    [][(src'.time = src.time + 1)
        => LET out == TransitionFunction_get(fun, src.state, TuringMachine_read(src.tapes))
               write_refused == \E i \in 1..fun.n_tapes :
                                    src.tapes[i].head = 0 /\ WrittenChars(out)[i] # START_CHAR
               move_refused == \E i \in 1..fun.n_tapes :
                                   src.tapes[i].head = 0 /\ MovedDirections(out)[i] = "L"
           IN  /\ src'.error = "RuntimeError" <=> write_refused
               /\ src'.error = "IndexError" <=> (~write_refused /\ move_refused)]_vars

\* C12: the head of every tape satisfies 0 <= head < number of cells in
\* every reachable state, a move that raised the error included.
C12_HeadInRange ==
    \A i \in 1..Len(src.tapes) :
        0 <= src.tapes[i].head /\ src.tapes[i].head < Len(src.tapes[i].chars)

\* what one step may do to the cells of a tape: one blank is appended when
\* the head moved Right from the rightmost cell, and nothing else changes
\* the number of cells
GrowsByMoveRight(old, new) ==
    IF new.head = Len(old.chars)
    THEN /\ old.head = Len(old.chars) - 1
         /\ Len(new.chars) = Len(old.chars) + 1
         /\ new.chars[Len(new.chars)] = BLANK_CHAR
    ELSE Len(new.chars) = Len(old.chars)

\* C13: in every step of the source machine and of the compiled machine,
\* failing steps included, the number of cells of each tape stays the same,
\* except that a move Right from the rightmost cell appends exactly one
\* blank cell.
C13_TapeOnlyGrows ==
    [][/\ (src'.time = src.time + 1)
           => \A i \in 1..Len(src.tapes) : GrowsByMoveRight(src.tapes[i], src'.tapes[i])
       /\ (cmp'.time = cmp.time + 1)
           => \A i \in 1..Len(cmp.tapes) : GrowsByMoveRight(cmp.tapes[i], cmp'.tapes[i])]_vars

\* C13 witness: a tape of the source machine has more cells than it started
\* with, and the compiled tape has grown as well.
C13_Witness ==
    /\ src.error = NoError
    /\ \E i \in 1..Len(src.tapes) :
           Len(src.tapes[i].chars)
               > Len(TuringMachine_reset(fun.n_tapes, src_cls, input).tapes[i].chars)
    /\ Len(cmp.tapes[1].chars) > Len(TuringMachine_reset(1, cmp_cls, input).tapes[1].chars)

\* the source machine after n steps of run(input) on a freshly constructed
\* machine
RECURSIVE FreshRun(_)
FreshRun(n) ==
    IF n = 0 THEN TuringMachine_reset(fun.n_tapes, src_cls, input)
    ELSE TuringMachine_step(FreshRun(n - 1))

\* C14: at every point of a run, on a machine object that was run before or
\* not, state, tapes, heads and step count are those of the run of a freshly
\* constructed machine on the same input after the same number of steps; the
\* compiled machine object starts each run as a fresh one does.
C14_RerunAsFresh ==
    /\ src = FreshRun(src.time)
    /\ cmp.time = 0 => cmp = TuringMachine_reset(1, cmp_cls, input)

\* C14 witness: a machine object that was run before has ended its run on a
\* non-empty word.
C14_Witness ==
    /\ rerun /\ input # <<>>
    /\ is_endstate(src.state) /\ src.time > 1
    /\ compiled = "ok" /\ is_endstate(cmp.state)

\* the symbols of a tape from cell 1 up to and including the last non-blank
\* cell, as the text of the tape variant (joined by '|' on the multi-symbol
\* tape)
SymbolsUpToLastNonBlank(tape_cls, tape) ==
    LET cells == Tail(StripBlanks(tape.chars))
    IN  IF tape_cls = "SingleCharTape" THEN Flatten(cells)
        ELSE JoinWith(<<"|">>, cells)

ResultAsSpecified(tape_cls, m) ==
    IF m.state = EndState(HALT)
    THEN SymbolsUpToLastNonBlank(tape_cls, m.tapes[Len(m.tapes)])
    ELSE <<>>

\* C15: once a run has ended, result() is the text of the last tape from cell
\* 1 up to and including the last non-blank cell if the run ended in Halt,
\* and the empty string if it ended in Accept or Reject, on both tape
\* variants, for the source machine and for the compiled machine.
C15_ResultIsTrimmedLastTape ==
    /\ is_endstate(src.state)
           => TuringMachine_result(src_cls, src) = ResultAsSpecified(src_cls, src)
    /\ is_endstate(cmp.state)
           => TuringMachine_result(cmp_cls, cmp) = ResultAsSpecified(cmp_cls, cmp)

\* C15 witness: a run on the multi-symbol tape ended in Halt with an output
\* that keeps an interior blank, on a tape that has trailing blanks.
C15_Witness ==
    /\ src.state = EndState(HALT) /\ src_cls = "MultiCharTape"
    /\ "_" \in Range(TuringMachine_result(src_cls, src))
    /\ src.tapes[1].chars[Len(src.tapes[1].chars)] = BLANK_CHAR

\* C16: on the default single-symbol tape the unary counter never fails, has
\* not ended before step n + 1, has ended at step n + 1, and ends in Halt
\* with result 1^n, n being the length of the input.
C16_UnaryCounter ==
    (fun = UnaryCounter /\ src_cls = "SingleCharTape")
    => /\ src.error = NoError
       /\ src.time <= Len(input) + 1
       /\ is_endstate(src.state) <=> src.time = Len(input) + 1
       /\ is_endstate(src.state)
              => /\ src.state = EndState(HALT)
                 /\ TuringMachine_result(src_cls, src) = [i \in 1..Len(input) |-> "1"]

\* C16 witness: the unary counter has halted on a word of the greatest
\* length with a '0' in it.
C16_Witness ==
    /\ fun = UnaryCounter /\ src_cls = "SingleCharTape"
    /\ Len(input) = MaxLen /\ "0" \in Range(input)
    /\ src.state = EndState(HALT)

\* C17: compress completes without error for every table.
C17_CompressCompletes == compiled # "KeyError"

\* the transitions compress(fun) emits for the key (state, S)
EmittedOnStart(state) ==
    LET emitted == compressed_transitions(fun, state, START_CHAR)
    IN  UNION {emitted[i] : i \in DOMAIN emitted}

WritesStartAndStays(out) ==
    out.acts[1][1] = START_CHAR /\ MovedDirections(out)[1] \in {"N", "R"}

\* C18: the compiled machine never raises a tape error; whenever its head
\* is on raw cell 0 the transition it takes writes S and does not move Left;
\* and every transition compress emits for a key with raw S writes S and
\* moves Neutral or Right.
C18_CompiledNeverFails ==
    compiled = "ok"
    => /\ cmp.error = NoError
       /\ (Running(cmp) /\ cmp.tapes[1].head = 0)
              => WritesStartAndStays(
                     compress_get(fun, cmp.state, TuringMachine_read(cmp.tapes)))
       /\ cmp.time = 0
              => \A state \in compressed_states(fun) :
                     \A out \in EmittedOnStart(state) : WritesStartAndStays(out)

\* C18 witness: the compiled machine ended its Move-Left stage on raw cell 0
\* and took the transition stored for S there.
C18_Witness ==
    /\ compiled = "ok" /\ cmp.error = NoError
    /\ cycles > 0 /\ cmp.state.stage = "reading" /\ cmp.tapes[1].head = 1

\* the transition lines of a file
RowsOf(origin) == SelectSeq(origin.body, LAMBDA item : item.kind = "row")

\* the non-terminal states occurring as state-in or state-out in the lines
StatesOf(rows) ==
    UNION {observed_states_of(rows[k].key, rows[k].out) : k \in 1..Len(rows)}

\* C19: from_file returns a table only if the declared transition count is
\* the number of transition lines, the declared state count is the number
\* of distinct non-terminal states in them, the alphabet line has the
\* declared size, and every symbol read or written is in the alphabet or is
\* S or _; otherwise it fails and returns no table.
C19_ParseAsserts ==
    (file.origin.structured /\ loaded # NotLoaded)
    => LET origin == file.origin
           rows == RowsOf(origin)
       IN  /\ loaded.error = NoError
               => /\ origin.n_lines = Len(rows)
                  /\ origin.n_states = Cardinality(StatesOf(rows))
                  /\ origin.alphabet_size = Len(origin.alphabet)
                  /\ \A k \in 1..Len(rows) :
                         chars_in_alphabet(rows[k].key, rows[k].out, origin.alphabet)
           /\ loaded.error # NoError => loaded.table = NoTable

\* C19 witness: a file with two transition lines and a comment-free body was
\* parsed into a table.
C19_Witness ==
    /\ file.origin.structured /\ loaded.error = NoError
    /\ Len(RowsOf(file.origin)) = 2
    /\ Cardinality(DOMAIN loaded.table.transitions) = 2

\* a table whose declared state count is the number of its distinct
\* non-terminal states and whose symbols are in its alphabet
WellFormed(table) ==
    /\ table.n_states
           = Cardinality(UNION {observed_states_of(key, table.transitions[key]) :
                                    key \in DOMAIN table.transitions})
    /\ \A key \in DOMAIN table.transitions :
           /\ Len(key[2]) = table.n_tapes
           /\ chars_in_alphabet(key, table.transitions[key], table.alphabet)

InitCopy(state) ==
    \/ state \in {NumState(STATE_START), NumState(STATE_INIT_GO_LEFT),
                  NumState(STATE_BLANK_INPUT)}
    \/ state.stage = "copying"

\* C21: run on the empty input, the compiled machine reads _ in state 0,
\* writes the all-S compressed start symbol and moves right, writes one
\* all-blank compressed cell carrying every head marker, enters Ready and
\* goes on to the Read stage's initial state for source state 0.
C21_EmptyInputShortCircuit ==
    (compiled = "ok" /\ input = <<>>)
    => LET tape == cmp.tapes[1]
       IN  /\ cmp.time = 0 => Tape_read(tape) = BLANK_CHAR
           /\ cmp.time = 1
                  => /\ cmp.state = NumState(STATE_BLANK_INPUT)
                     /\ tape.chars[2] = compressed_start_char(fun.n_tapes)
                     /\ tape.head = 2
           /\ cmp.time = 2
                  => /\ cmp.state = NumState(STATE_READY)
                     /\ tape.chars[3] = [j \in 1..(2 * fun.n_tapes) |->
                                           IF j % 2 = 1 THEN "*" ELSE "_"]
                     /\ tape.head = 2
           /\ cmp.time = 3
                  => /\ cmp.state.stage = "reading"
                     /\ cmp.state.q = 0
                     /\ cmp.state.save = blank_save(fun.n_tapes)

\* the compressed cell made from input symbol c: c on the first tape, _ on
\* every other tape, all head markers equal to mark
InputCell(c, mark, n_tapes) ==
    [j \in 1..(2 * n_tapes) |-> IF j % 2 = 1 THEN mark ELSE IF j = 2 THEN c ELSE "_"]

\* the compiled tape when Ready is entered on a non-empty input
ReadyTape(word, n_tapes) ==
    <<START_CHAR, [j \in 1..(2 * n_tapes) |-> IF j % 2 = 1 THEN "-" ELSE "S"]>>
    \o [i \in 1..Len(word) |-> InputCell(word[i], IF i = 1 THEN "*" ELSE "-", n_tapes)]

\* C22: on a non-empty input c1...cn the compiled machine enters Ready with
\* the tape [S, -S...-S, *c1*_...*_, -c2-_...-_, ..., -cn-_...-_] and the head
\* on cell 2, and once it has left the Init-Copy states it never enters one
\* of them again.
C22_InitCopyOnce ==
    [][(compiled = "ok" /\ input # <<>> /\ cmp'.time = cmp.time + 1)
        => /\ cmp'.state = NumState(STATE_READY)
                  => cmp'.tapes[1] = [chars |-> ReadyTape(input, fun.n_tapes), head |-> 2]
           /\ ~InitCopy(cmp.state) => ~InitCopy(cmp'.state)]_vars

\* C22 witness: a 2-tape simulation entered Ready on a two-symbol input.
C22_Witness ==
    /\ compiled = "ok" /\ fun.n_tapes = 2 /\ Len(input) = 2
    /\ cmp.state = NumState(STATE_READY)
    /\ cmp.tapes[1].chars = ReadyTape(input, 2)

\* the cell-symbols under the virtual heads of the compiled tape, one per
\* tape (defined when every tape has exactly one head marker)
HeadSymbols(tape, n_tapes) ==
    [i \in 1..n_tapes |->
        LET h == CHOOSE h \in VirtualHeads(tape, n_tapes, i) : TRUE
        IN  VirtualCells(tape, n_tapes)[h + 1][2 * i]]

\* the step leaves every cell as it was (the tape may have grown by a blank)
CellsKept(old, new) ==
    new.chars = old.chars \/ new.chars = Append(old.chars, BLANK_CHAR)

\* C23: a step of the Read stage changes no tape cell; a step taken on the
\* terminating _ in a Read state for source state q finds the save complete
\* and equal to the cell-symbols under the virtual heads, leads to the Write
\* state of the source table's answer for (q, save) and moves the head Left.
C23_ReadStage ==
    [][(compiled = "ok" /\ cmp.state.stage = "reading" /\ cmp'.time = cmp.time + 1)
        => LET tape == cmp.tapes[1]
               save == cmp.state.save
               out == TransitionFunction_get(fun, NumState(cmp.state.q), str_to_chars(save))
           IN  /\ CellsKept(tape, cmp'.tapes[1])
               /\ Tape_read(tape) = BLANK_CHAR
                      => /\ " " \notin Range(save)
                         /\ \A i \in 1..fun.n_tapes :
                                Cardinality(VirtualHeads(tape, fun.n_tapes, i)) = 1
                         /\ save = HeadSymbols(tape, fun.n_tapes)
                         /\ cmp'.state.stage = "writing"
                         /\ cmp'.state.q = out.next.q
                         /\ cmp'.state.acts = out.acts
                         /\ cmp'.tapes[1].head = tape.head - 1]_vars

\* C23 witness: the Read stage of a 2-tape simulation has reached the
\* terminating _ with the two heads on different cells and a complete save.
C23_Witness ==
    /\ compiled = "ok" /\ fun.n_tapes = 2
    /\ cmp.state.stage = "reading" /\ Tape_read(cmp.tapes[1]) = BLANK_CHAR
    /\ " " \notin Range(cmp.state.save)
    /\ VirtualHeads(cmp.tapes[1], 2, 1) # VirtualHeads(cmp.tapes[1], 2, 2)

\* a compressed symbol all of whose cell-symbols are S
IsStartSymbol(c, n_tapes) ==
    Len(c) = 2 * n_tapes /\ \A i \in 1..n_tapes : c[2 * i] = "S"

\* a compressed symbol none of whose cell-symbols is S
IsNonStartSymbol(c, n_tapes) ==
    Len(c) = 2 * n_tapes /\ \A i \in 1..n_tapes : c[2 * i] # "S"

\* the write of actions a on compressed symbol c would put a non-S symbol on
\* a start cell
WritesOverStart(c, a, n_tapes) ==
    IsStartSymbol(c, n_tapes)
    /\ \E i \in 1..n_tapes : c[2 * i - 1] = "*" /\ a[i][1] # START_CHAR

\* the write of actions a on compressed symbol c would put S on a cell that
\* is not the start cell
WritesStartInside(c, a, n_tapes) ==
    IsNonStartSymbol(c, n_tapes)
    /\ \E i \in 1..n_tapes : c[2 * i - 1] = "*" /\ a[i][1] = START_CHAR

\* no builder of compress() emits a transition for the key
NothingStored(state, char) ==
    \A b \in DOMAIN compressed_transitions(fun, state, char) :
        compressed_transitions(fun, state, char)[b] = {}

\* C25: in a Write state with actions a, the compiled table stores nothing
\* for a start compressed symbol with a head marker on a tape whose write is
\* not S, and nothing for a non-start compressed symbol with a head marker
\* on a tape whose write is S; the compiled machine falls into the implicit
\* Reject there.
C25_IllegalWritesOmitted ==
    [][(/\ compiled = "ok" /\ cmp.state.stage = "writing" /\ cmp'.time = cmp.time + 1
        /\ \/ WritesOverStart(Tape_read(cmp.tapes[1]), cmp.state.acts, fun.n_tapes)
           \/ WritesStartInside(Tape_read(cmp.tapes[1]), cmp.state.acts, fun.n_tapes))
        => /\ NothingStored(cmp.state, Tape_read(cmp.tapes[1]))
           /\ cmp'.state = EndState(REJECT)
           /\ cmp'.tapes = cmp.tapes]_vars

\* the compressed symbol c after the write of actions a: the cell-symbol of
\* every tape with a head marker in c replaced, everything else kept
WrittenSymbol(c, a, n_tapes) ==
    [j \in 1..(2 * n_tapes) |->
        IF j % 2 = 0 /\ c[j - 1] = "*" THEN a[j \div 2][1][1] ELSE c[j]]

\* C24: a step of the Write stage for actions a that does not fall into the
\* implicit Reject replaces, in the cell under the head, the cell-symbol of
\* each tape with a head marker by a[i].write and keeps every head marker and
\* every other cell-symbol; on a non-start symbol it moves Left in the same
\* state, on a start symbol it stays and enters Move-Right for (next state,
\* directions of a, nothing picked up).
C24_WriteStage ==
    [][(/\ compiled = "ok" /\ cmp.state.stage = "writing" /\ cmp'.time = cmp.time + 1
        /\ ~is_endstate(cmp'.state))
        => LET tape == cmp.tapes[1]
               c == Tape_read(tape)
               a == cmp.state.acts
           IN  /\ cmp'.tapes[1].chars
                      = [tape.chars EXCEPT ![tape.head + 1] = WrittenSymbol(c, a, fun.n_tapes)]
               /\ IF IsStartSymbol(c, fun.n_tapes)
                  THEN /\ cmp'.tapes[1].head = tape.head
                       /\ cmp'.state.stage = "moving_right"
                       /\ cmp'.state.q = cmp.state.q
                       /\ cmp'.state.dirs = [i \in 1..fun.n_tapes |-> a[i][2]]
                       /\ cmp'.state.found = [i \in 1..fun.n_tapes |-> FALSE]
                  ELSE /\ cmp'.tapes[1].head = tape.head - 1
                       /\ cmp'.state = cmp.state]_vars

\* the compiled tape as it was when Move-Right was entered
MovingEntry == [chars |-> entry.moving, head |-> 0]

\* no tape whose direction is Left had its head on the start cell when
\* Move-Right was entered
NoLeftOnStart ==
    \A i \in 1..fun.n_tapes :
        entry.dirs[i] = "L" => 0 \notin VirtualHeads(MovingEntry, fun.n_tapes, i)

\* C26: when the Move-Left sweep of a macro-cycle with direction vector d
\* is back on raw cell 0 (no Left head having stood on the start symbol),
\* nothing is in hand, the marker of each tape i is one cell to the right
\* of where it was when Move-Right began if d[i] = R, one cell to the left
\* if d[i] = L and on the same cell if d[i] = N, and every cell-symbol is as
\* it was (a tape may have gained one blank cell at its right end).
C26_MarkersMoved ==
    (/\ compiled = "ok" /\ cmp.state.stage = "moving_left" /\ cmp.tapes[1].head = 0
     /\ NoLeftOnStart)
    => /\ cmp.state.found = [i \in 1..fun.n_tapes |-> FALSE]
       /\ \A i \in 1..fun.n_tapes :
              LET was == VirtualTape(MovingEntry, fun.n_tapes, i)
                  now == VirtualTape(cmp.tapes[1], fun.n_tapes, i)
              IN  /\ VirtualHeads(cmp.tapes[1], fun.n_tapes, i)
                         = {h + Delta(entry.dirs[i]) :
                                h \in VirtualHeads(MovingEntry, fun.n_tapes, i)}
                  /\ Cardinality(VirtualHeads(cmp.tapes[1], fun.n_tapes, i)) = 1
                  /\ now = was \/ now = Append(was, BLANK_CHAR)

\* C26 witness: a macro-cycle of a 2-tape simulation moved one head Right
\* and another head Left, and the Move-Left sweep is back on raw cell 0.
C26_Witness ==
    /\ compiled = "ok" /\ fun.n_tapes = 2
    /\ cmp.state.stage = "moving_left" /\ cmp.tapes[1].head = 0 /\ NoLeftOnStart
    /\ "R" \in Range(entry.dirs) /\ "L" \in Range(entry.dirs)

\* a fresh compressed cell: every cell-symbol _, head markers on exactly the
\* tapes of heads
FreshCell(heads, n_tapes) ==
    [j \in 1..(2 * n_tapes) |->
        IF j % 2 = 0 THEN "_" ELSE IF heads[(j + 1) \div 2] THEN "*" ELSE "-"]

NothingInHand(n_tapes) == [i \in 1..n_tapes |-> FALSE]

\* C27: a Move-Right step on the raw _ with heads in hand writes one fresh
\* compressed cell (all cell-symbols _, markers exactly the heads in hand),
\* empties the hand and moves Right in the same stage; with nothing in hand
\* it writes nothing, moves Left and enters Move-Left with every Right of
\* the direction vector replaced by Neutral.
C27_MoveRightAtBlank ==
    [][(/\ compiled = "ok" /\ cmp.state.stage = "moving_right" /\ cmp'.time = cmp.time + 1
        /\ Tape_read(cmp.tapes[1]) = BLANK_CHAR)
        => LET tape == cmp.tapes[1]
               state == cmp.state
               k == fun.n_tapes
           IN  IF state.found # NothingInHand(k)
               THEN /\ cmp'.tapes[1].chars
                           = WrittenAndMoved(tape.chars, tape.head,
                                             FreshCell(state.found, k), tape.head + 1)
                    /\ cmp'.tapes[1].head = tape.head + 1
                    /\ cmp'.state = [state EXCEPT !.found = NothingInHand(k)]
               ELSE /\ cmp'.tapes[1].chars = tape.chars
                    /\ cmp'.tapes[1].head = tape.head - 1
                    /\ cmp'.state
                           = [state EXCEPT
                                 !.stage = "moving_left",
                                 !.dirs = [i \in 1..k |->
                                              IF state.dirs[i] = "R" THEN "N"
                                              ELSE state.dirs[i]]]]_vars

\* C27 witness: Move-Right of a 2-tape simulation has just written a fresh
\* cell carrying one or two heads at the right end of the tape and stands
\* on the blank behind it with nothing in hand.
C27_Witness ==
    /\ compiled = "ok" /\ fun.n_tapes = 2
    /\ cmp.state.stage = "moving_right" /\ cmp.state.found = NothingInHand(2)
    /\ Tape_read(cmp.tapes[1]) = BLANK_CHAR
    /\ cmp.tapes[1].head + 1 = Len(cmp.tapes[1].chars)
    /\ cmp.tapes[1].chars[cmp.tapes[1].head]
           \in {FreshCell(<<TRUE, TRUE>>, 2), FreshCell(<<TRUE, FALSE>>, 2),
                FreshCell(<<FALSE, TRUE>>, 2)}
    /\ Len(cmp.tapes[1].chars) > Len(entry.moving)

\* C28: a Move-Left step on the raw S of cell 0 with nothing in hand leads
\* to Accept or Reject if the source next-state is Accept or Reject, to
\* Cleanup with a move Right if it is Halt, and otherwise to the Read
\* stage's initial state (all-space save) of the source next-state with a
\* move Right onto the start symbol.
C28_MoveLeftAtStart ==
    [][(/\ compiled = "ok" /\ cmp.state.stage = "moving_left" /\ cmp'.time = cmp.time + 1
        /\ cmp.tapes[1].head = 0 /\ Tape_read(cmp.tapes[1]) = START_CHAR
        /\ cmp.state.found = NothingInHand(fun.n_tapes))
        => LET q == cmp.state.q
           IN  /\ cmp'.tapes[1].chars = cmp.tapes[1].chars
               /\ q \in {ACCEPT, REJECT}
                      => cmp'.state = EndState(q) /\ cmp'.tapes[1].head = 0
               /\ q = HALT
                      => cmp'.state = NumState(STATE_CLEANUP) /\ cmp'.tapes[1].head = 1
               /\ q \notin EndStates
                      => /\ cmp'.state.stage = "reading"
                         /\ cmp'.state.q = q
                         /\ cmp'.state.save = [i \in 1..fun.n_tapes |-> " "]
                         /\ cmp'.tapes[1].head = 1
                         /\ IsStartSymbol(Tape_read(cmp'.tapes[1]), fun.n_tapes)]_vars

\* C28 witness: after its second macro-cycle a 2-tape simulation stands on
\* the start symbol in the Read stage's initial state of a source state
\* other than 0.
C28_Witness ==
    /\ compiled = "ok" /\ fun.n_tapes = 2 /\ cycles = 2
    /\ cmp.state.stage = "reading" /\ cmp.state.q # 0
    /\ cmp.state.save = <<" ", " ">>
    /\ cmp.tapes[1].head = 1

\* the stage a state of the compiled machine belongs to
StageOf(state) ==
    IF is_endstate(state)
    THEN (IF state.q = ACCEPT THEN "Accept" ELSE IF state.q = REJECT THEN "Reject" ELSE "Halt")
    ELSE IF InitCopy(state) THEN "Init-Copy"
    ELSE IF state = NumState(STATE_READY) THEN "Ready"
    ELSE IF state = NumState(STATE_CLEANUP) \/ state.stage = "cleanup" THEN "Cleanup"
    ELSE IF state.stage = "reading" THEN "Read"
    ELSE IF state.stage = "writing" THEN "Write"
    ELSE IF state.stage = "moving_right" THEN "Move-Right"
    ELSE "Move-Left"

\* the successions of the plan: a stage lasts or hands over to the next one
StageOrder ==
    {<<"Init-Copy", "Init-Copy">>, <<"Init-Copy", "Ready">>, <<"Ready", "Read">>,
     <<"Read", "Read">>, <<"Read", "Write">>, <<"Write", "Write">>,
     <<"Write", "Move-Right">>, <<"Move-Right", "Move-Right">>,
     <<"Move-Right", "Move-Left">>, <<"Move-Left", "Move-Left">>,
     <<"Move-Left", "Read">>, <<"Move-Left", "Accept">>, <<"Move-Left", "Reject">>,
     <<"Move-Left", "Cleanup">>, <<"Cleanup", "Cleanup">>, <<"Cleanup", "Halt">>}

\* C29: every step of a compiled machine either keeps the stage or hands
\* over to the next stage of the order Init-Copy, Ready, (Read, Write,
\* Move-Right, Move-Left)+, then Accept, Reject or Cleanup and Halt, or it
\* falls into the implicit Reject; the first step is taken in Init-Copy.
C29_StageOrder ==
    [][(compiled = "ok" /\ cmp'.time = cmp.time + 1)
        => /\ cmp.time = 0 => StageOf(cmp.state) = "Init-Copy"
           /\ \/ <<StageOf(cmp.state), StageOf(cmp'.state)>> \in StageOrder
              \/ /\ cmp'.state = EndState(REJECT)
                 /\ NothingStored(cmp.state, Tape_read(cmp.tapes[1]))]_vars

\* C29 witness: a simulation went through a second Read stage and Cleanup and
\* ended in Halt.
C29_Witness ==
    /\ compiled = "ok" /\ cycles >= 1 /\ entry.cleanup # <<>>
    /\ cmp.state = EndState(HALT)

\* C30: when Cleanup has ended in Halt on a tape whose compressed region
\* was the start symbol on cell 1 followed by m compressed cells, each cell
\* j with 1 <= j <= m holds the last-tape cell-symbol of the former
\* compressed cell j + 1, cell m + 1 holds _, and no compressed symbol is
\* left on the tape.
C30_CleanupResult ==
    LET k == fun.n_tapes
        was == entry.cleanup
        m == Len(VirtualCells([chars |-> was, head |-> 0], k)) - 1
        now == cmp.tapes[1].chars
    IN  (/\ compiled = "ok" /\ cmp.state = EndState(HALT) /\ was # <<>>
         /\ m >= 0 /\ Len(was) >= m + 2
         /\ IsStartSymbol(was[2], k)
         /\ \A j \in 2..(m + 1) : IsNonStartSymbol(was[j + 1], k))
        => /\ Len(now) >= m + 2
           /\ \A j \in 1..m : now[j + 1] = <<was[j + 2][2 * k]>>
           /\ now[m + 2] = BLANK_CHAR
           /\ \A j \in 1..Len(now) : Len(now[j]) # 2 * k

\* C30 witness: Cleanup of a 2-tape simulation ended in Halt and left a
\* non-blank symbol of the last tape on the tape.
C30_Witness ==
    /\ compiled = "ok" /\ fun.n_tapes = 2 /\ cmp.state = EndState(HALT)
    /\ Len(entry.cleanup) >= 4
    /\ IsStartSymbol(entry.cleanup[2], 2)
    /\ entry.cleanup[3][4] # "_"
    /\ cmp.tapes[1].chars[2] = <<entry.cleanup[3][4]>>

\* the compiled machine is in Ready or in the first state of a Read stage
\* (nothing saved yet)
AtReadStart ==
    \/ cmp.state = NumState(STATE_READY)
    \/ cmp.state.stage = "reading" /\ cmp.state.save = blank_save(fun.n_tapes)

\* the compiled head is on a compressed symbol that makes a head clash with
\* what the compiled state holds
HeadClash ==
    LET char_in == Tape_read(cmp.tapes[1])
    IN  /\ Len(char_in) = 2 * fun.n_tapes
        /\ \/ /\ cmp.state.stage = "reading"
              /\ head_clash_reading(char_in, cmp.state.save, fun.n_tapes)
           \/ /\ cmp.state.stage \in {"moving_right", "moving_left"}
              /\ head_clash_moving(char_in, cmp.state.found, fun.n_tapes)

\* C31: whenever the compiled machine is in Ready or in the initial state of
\* a Read stage, every virtual tape has exactly one compressed cell whose
\* marker is '*'; and the compiled machine never stands, in a Read or a
\* Move state, on a symbol that clashes with its save slots or picked-up bits
C31_OneHeadPerTape ==
    compiled = "ok" =>
        /\ AtReadStart =>
               \A i \in 1..fun.n_tapes :
                   Cardinality(VirtualHeads(cmp.tapes[1], fun.n_tapes, i)) = 1
        /\ ~HeadClash

\* a second Read stage starts on a two-tape machine whose heads are on
\* different cells
C31_Witness ==
    /\ compiled = "ok"
    /\ fun.n_tapes = 2
    /\ cycles >= 1
    /\ cmp.state.stage = "reading"
    /\ cmp.state.save = blank_save(fun.n_tapes)
    /\ VirtualHeads(cmp.tapes[1], 2, 1) # VirtualHeads(cmp.tapes[1], 2, 2)
    /\ \A i \in 1..2 : Cardinality(VirtualHeads(cmp.tapes[1], 2, i)) = 1

\* the compiled machine has entered Ready and Cleanup has not yet replaced
\* the start compressed symbol
Simulating ==
    /\ compiled = "ok"
    /\ Running(cmp)
    /\ \/ cmp.state \in {NumState(STATE_READY), NumState(STATE_CLEANUP)}
       \/ cmp.state.stage \in {"reading", "writing", "moving_right", "moving_left",
                               "cleanup"}

\* C32: from the first entry into Ready until Cleanup replaces it, cell 1 of
\* the compiled tape holds a start compressed symbol (every cell-symbol S)
\* and no other cell holds a compressed symbol containing S; the start and
\* the non-start compressed symbols are disjoint families.
C32_StartSymbolOnlyInCellOne ==
    LET chars == cmp.tapes[1].chars
        alphabets == compress_alphabet(fun.alphabet, fun.n_tapes)
    IN  /\ Simulating =>
               /\ Len(chars) >= 2
               /\ IsStartSymbol(chars[2], fun.n_tapes)
               /\ chars[2] \in alphabets.start
               /\ \A j \in 1..Len(chars) :
                      j # 2 /\ Len(chars[j]) = 2 * fun.n_tapes =>
                          /\ "S" \notin Range(chars[j])
                          /\ chars[j] \in alphabets.non_start
        /\ alphabets.start \cap alphabets.non_start = {}
        /\ \A c \in alphabets.start : IsStartSymbol(c, fun.n_tapes)
        /\ \A c \in alphabets.non_start : IsNonStartSymbol(c, fun.n_tapes)

\* after a completed macro-cycle the Write stage stands on cell 1, which
\* holds a start compressed symbol with a head marker, and the tape has
\* other compressed cells
C32_Witness ==
    /\ Simulating
    /\ cycles >= 1
    /\ cmp.state.stage = "writing"
    /\ cmp.tapes[1].head = 1
    /\ IsStartSymbol(Tape_read(cmp.tapes[1]), fun.n_tapes)
    /\ "*" \in Range(Tape_read(cmp.tapes[1]))
    /\ Len(VirtualCells(cmp.tapes[1], fun.n_tapes)) >= 3

\* the (next state, direction vector) pairs of the stored source transitions
StoredMoves ==
    {<<fun.transitions[key][1], dirs_of(fun.transitions[key][2])>> :
        key \in DOMAIN fun.transitions}

\* the triples (q, d, f) with (q, d) in moves and the set bits of f among
\* the tapes that d moves in direction going
TriplesOf(moves, going) ==
    UNION {{<<mv[1], mv[2], f>> :
               f \in {f \in [1..fun.n_tapes -> BOOLEAN] :
                         {i \in 1..fun.n_tapes : f[i]}
                             \subseteq {i \in 1..fun.n_tapes : mv[2][i] = going}}} :
           mv \in moves}

\* the direction vector with every Right replaced by Neutral
RightAsNeutral(d) == [i \in 1..Len(d) |-> IF d[i] = "R" THEN "N" ELSE d[i]]

MAX_RESERVED_STATE == 4

\* the order in which a loop visits a set: some order, each member once
RECURSIVE set_order(_)
set_order(S) ==
    IF S = {} THEN <<>>
    ELSE LET x == CHOOSE x \in S : TRUE
         IN  <<x>> \o set_order(S \ {x})

\* a loop that never advances next_state
number_states_stuck(infos, start_at) ==
    [map |-> [info \in Range(infos) |-> start_at], next_state |-> start_at]

\* the loop "map[info] = next_state; next_state += 1" over infos: a tuple
\* visited again takes the later number
number_states(infos, start_at) ==
    [map |-> [info \in Range(infos) |->
                 start_at - 1 + CHOOSE i \in DOMAIN infos :
                     infos[i] = info /\ \A j \in DOMAIN infos : infos[j] = info => j <= i],
     next_state |-> start_at + Len(infos)]

compress_states_copying_numbers(original_alphabet, start_at) ==
    number_states([k \in 1..(2 * Len(original_alphabet)) |->
                      <<original_alphabet[(k + 1) \div 2], k % 2 = 1>>], start_at)

compress_states_reading_numbers(incomplete_saves, start_at) ==
    number_states(set_order(incomplete_saves), start_at)

compress_states_writing_numbers(original_trans_outs, start_at) ==
    number_states(set_order(original_trans_outs), start_at)

compress_states_moving_numbers(possible_moves, going, start_at) ==
    LET moves == set_order(possible_moves)
    IN  number_states(
            Flatten([m \in 1..Len(moves) |->
                LET found_vectors == set_order(possible_found_vectors(moves[m][2], going))
                IN  [f \in 1..Len(found_vectors) |->
                        <<moves[m][1], moves[m][2], found_vectors[f]>>]]),
            start_at)

compress_states_cleanup_numbers(original_alphabet, start_at) ==
    number_states(original_alphabet \o <<BLANK_CHAR>>, start_at)

\* the six maps of one compress call, each starting at the number the
\* previous one returned
compress_state_numbers(original_function) ==
    LET a == compress_artifacts(original_function)
        copying == compress_states_copying_numbers(a.alphabet, MAX_RESERVED_STATE + 1)
        reading == compress_states_reading_numbers(
                       generate_incomplete_saves(extract_trans_ins(original_function),
                                                 a.n_tapes), copying.next_state)
        writing == compress_states_writing_numbers(extract_trans_outs(original_function),
                                                   reading.next_state)
        moving_right == compress_states_moving_numbers(a.moves_right, "R", writing.next_state)
        moving_left == compress_states_moving_numbers(a.moves_left, "L",
                                                      moving_right.next_state)
        cleanup == compress_states_cleanup_numbers(a.alphabet, moving_left.next_state)
    IN  [copying |-> copying.map, reading |-> reading.map, writing |-> writing.map,
         moving_right |-> moving_right.map, moving_left |-> moving_left.map,
         cleanup |-> cleanup.map, next_state |-> cleanup.next_state]

\* the number of a compiled state
state_number(numbers, state) ==
    CASE state.stage \in {"num", "end"} -> state.q
      [] state.stage = "copying" -> numbers.copying[<<state.ch, state.placed>>]
      [] state.stage = "reading" -> numbers.reading[<<state.q, state.save>>]
      [] state.stage = "writing" -> numbers.writing[<<state.q, state.acts>>]
      [] state.stage = "moving_right" ->
             numbers.moving_right[<<state.q, state.dirs, state.found>>]
      [] state.stage = "moving_left" ->
             numbers.moving_left[<<state.q, state.dirs, state.found>>]
      [] state.stage = "cleanup" -> numbers.cleanup[state.ch]

Injective(map) == \A x, y \in DOMAIN map : map[x] = map[y] => x = y

compiled_symbols(original_function) ==
    LET a == compress_artifacts(original_function)
    IN  Range(a.alphabet) \cup a.compressed_alphabet \cup Range(SPECIAL_CHARS)

\* the number of entries of compressed_transitions with the key
\* (state_in, [char_in])
RECURSIVE entries_emitted(_, _)
entries_emitted(emitted, i) ==
    IF i = 0 THEN 0 ELSE Cardinality(emitted[i]) + entries_emitted(emitted, i - 1)

\* the keys that occur in compressed_transitions
compiled_keys(original_function) ==
    {key \in compressed_states(original_function) \X compiled_symbols(original_function) :
        \E i \in 1..12 :
            compressed_transitions(original_function, key[1], key[2])[i] # {}}

\* an extraction that keeps the end states
extract_all_states(original_function, numbers) ==
    UNION {{state_number(numbers, key[1])}
           \cup {state_number(numbers, out.next) :
                    out \in UNION Range(compressed_transitions(
                                original_function, key[1], key[2]))} :
           key \in compiled_keys(original_function)}

\* extract_non_end_states(compressed_transitions), as state numbers
extract_non_end_states(original_function, numbers) ==
    UNION {{state_number(numbers, key[1])}
           \cup {state_number(numbers, out.next) :
                    out \in {out \in UNION Range(compressed_transitions(
                                        original_function, key[1], key[2])) :
                                ~is_endstate(out.next)}} :
           key \in compiled_keys(original_function)}

\* the TransitionFunction compress() returns
compress(original_function) ==
    LET a == compress_artifacts(original_function)
        numbers == compress_state_numbers(original_function)
        keys == compiled_keys(original_function)
        used_states == extract_non_end_states(original_function, numbers)
    IN  [n_states |-> Cardinality(used_states),
         n_tapes |-> 1,
         alphabet |-> a.alphabet \o set_order(a.start_alphabet)
                      \o set_order(a.non_start_alphabet),
         transitions |->
             [key \in {to_key(state_number(numbers, k[1]), <<k[2]>>) : k \in keys} |->
                 LET state == CHOOSE s \in compressed_states(original_function) :
                                  state_number(numbers, s) = key[1]
                     out == compress_get(original_function, state, key[2])
                 IN  <<state_number(numbers, out.next), out.acts>>]]

\* ------------------------------------------------------------------------
\* compress.py main(): a table is compiled, the compiled table is saved and
\* the saved file is loaded to see that it is a working encoding; the
\* compiled table is looked up under a key
\* ------------------------------------------------------------------------
CompileInit ==
    /\ fun \in Machines \cup {Halter}
    /\ input = <<>>
    /\ src_cls = "SingleCharTape"
    /\ cmp_cls = "SingleCharTape"
    /\ src = TuringMachine_reset(fun.n_tapes, src_cls, input)
    /\ cmp = TuringMachine_reset(1, cmp_cls, input)
    /\ compiled = "pending"
    /\ cycles = 0
    /\ rerun = FALSE
    /\ file = NoFile
    /\ loaded = NotLoaded
    /\ saved = NotSaved
    /\ entry = NoEntry
    /\ probe = NoProbe

\* TransitionFunction.from_file on the file save() wrote for table, with the
\* loop over the transition lines taken one stored key at a time (save()
\* writes one line per key, none of them empty or a comment)
from_file_saved(table) ==
    LET header == [i \in 1..3 |-> Append(save_header(table)[i], NL)]
        first == skip_comments(header, 1)
        fields == split(header[first], " ", <<>>)
        second == skip_comments(header, first + 1)
        alphabet == split(sanitize(header[second]), ",", <<>>)
        n_states == str_to_int(fields[1])
        n_tapes == str_to_int(fields[2])
        alphabet_size == str_to_int(fields[3])
        n_lines == str_to_int(fields[4])
        keys == DOMAIN table.transitions
        parsed == [key \in keys |->
                      TransitionFunction_parse_line(
                          Append(transition_to_str(key, table.transitions[key]), NL),
                          n_tapes)]
        observed_states == UNION {observed_states_of(parsed[key].key, parsed[key].out) :
                                     key \in keys}
    IN  IF first = 0 THEN Failed("AttributeError")
        ELSE IF Len(fields) # 4 \/ \E k \in 1..Len(fields) : ~is_int(fields[k])
        THEN Failed("ValueError")
        ELSE IF second = 0 THEN Failed("TypeError")
        ELSE IF alphabet_size # Len(alphabet) THEN Failed("AssertionError")
        ELSE IF \E key \in keys : parsed[key].error # NoError
        THEN Failed(parsed[CHOOSE key \in keys : parsed[key].error # NoError].error)
        ELSE IF \E key \in keys :
                    ~chars_in_alphabet(parsed[key].key, parsed[key].out, alphabet)
        THEN Failed("AssertionError")
        ELSE IF ~from_file_asserts(n_lines, n_states, Cardinality(keys), observed_states)
        THEN Failed("AssertionError")
        ELSE [error |-> NoError,
              table |-> [n_states |-> n_states, n_tapes |-> n_tapes, alphabet |-> alphabet,
                         transitions |->
                             IF \A key \in keys : parsed[key].key = key
                             THEN [key \in keys |-> parsed[key].out]
                             ELSE [k \in {parsed[key].key : key \in keys} |->
                                      parsed[CHOOSE key \in keys : parsed[key].key = k].out]]]

\* compress(fun) and compressed.save(out_file)
CompressAndSave ==
    /\ compiled = "pending"
    /\ compiled' = IF compress_error(fun) = NoError THEN "ok" ELSE compress_error(fun)
    /\ saved' = IF compress_error(fun) = NoError
                THEN [done |-> TRUE, table |-> compress(fun)]
                ELSE saved
    /\ UNCHANGED <<fun, input, src_cls, cmp_cls, src, cmp, cycles, rerun, entry,
                   file, loaded, probe>>

\* TransitionFunction.from_file(out_file): is the saved file a working
\* encoding
CheckEncoding ==
    /\ saved.done
    /\ loaded = NotLoaded
    /\ ~probe.looked
    /\ loaded' = from_file_saved(saved.table)
    /\ UNCHANGED <<machine_vars, file, saved, probe>>

\* the compiled table is looked up under a key
Lookup ==
    /\ saved.done
    /\ loaded = NotLoaded
    /\ ~probe.looked
    /\ \E state \in compressed_states(fun), char \in compiled_symbols(fun) :
           probe' = [state |-> state, char |-> char, looked |-> TRUE]
    /\ UNCHANGED <<machine_vars, file, loaded, saved>>

CompileNext == CompressAndSave \/ CheckEncoding \/ Lookup

CompileSpec == CompileInit /\ [][CompileNext]_vars

\* the largest saved table whose file is also read back through the loop of
\* from_file as it is written
MaxLoopedLines == 100

\* the non-terminal states that occur in the stored transitions of a table
StoredStates(table) ==
    UNION {observed_states_of(key, table.transitions[key]) :
              key \in DOMAIN table.transitions}

Emitted == compressed_transitions(fun, probe.state, probe.char)

\* the key that is looked up, as compress() stores it
ProbedKey ==
    to_key(state_number(compress_state_numbers(fun), probe.state), <<probe.char>>)

\* the stored transition of the looked-up key is the entry out
StoredIs(out) ==
    /\ ProbedKey \in DOMAIN saved.table.transitions
    /\ saved.table.transitions[ProbedKey]
           = <<state_number(compress_state_numbers(fun), out.next), out.acts>>

SentinelStartWriter ==
    [n_tapes |-> 2, alphabet |-> Alphabet01,
     transitions |->
         Line2(0, One, BLANK_CHAR, 1, One, "R", BLANK_CHAR, "L")
      @@ Line2(1, Zero, START_CHAR, 1, START_CHAR, "N", START_CHAR, "L")]

\* the two tables whose runs move a head Left on cell 0
SentinelInit ==
    /\ fun \in {SentinelViolator, SentinelStartWriter}
    /\ input \in Inputs
    /\ src_cls \in TapeClasses
    /\ cmp_cls \in TapeClasses
    /\ src = TuringMachine_reset(fun.n_tapes, src_cls, input)
    /\ cmp = TuringMachine_reset(1, cmp_cls, input)
    /\ compiled = "pending"
    /\ cycles = 0
    /\ rerun = FALSE
    /\ file = NoFile
    /\ loaded = NotLoaded
    /\ saved = NotSaved
    /\ entry = NoEntry
    /\ probe = NoProbe

SentinelSpec == SentinelInit /\ [][Next]_vars

\* the source run was ended by Tape.move raising on cell 0 of some tape
LeftPastSentinel == src.error = "IndexError" /\ \E i \in 1..fun.n_tapes : src.tapes[i].head < 0

\* C37: when the source run ends with the left-past-sentinel error of tape i,
\* the compiled run on the same word ends in Reject without an error, stopped
\* on the raw S of cell 0 with the head marker of tape i picked up (in the
\* state, no longer on the tape).
C37_LeftPastSentinelRejects ==
    (compiled = "ok" /\ ~rerun /\ LeftPastSentinel /\ ~Running(cmp) /\ cmp.time > 0)
        => /\ cmp.state = EndState(REJECT)
           /\ cmp.error = NoError
           /\ cmp.tapes[1].head = 0
           /\ cmp.tapes[1].chars[1] = START_CHAR
           /\ \E i \in 1..fun.n_tapes :
                  /\ src.tapes[i].head < 0
                  /\ VirtualHeads(cmp.tapes[1], fun.n_tapes, i) = {}
====
